---- MODULE Spec2Model ----
(***************************************************************************)
(* A model of the tsslint sample rules: each rule is a visitor that walks  *)
(* the syntax tree of one source file in depth-first pre-order, queries    *)
(* the type checker and reports diagnostics with lazily evaluated fixes.   *)
(*                                                                         *)
(* A source file is a table of nodes (the result of parsing, which the     *)
(* rules only read) together with its text.  The type checker is an oracle *)
(* whose answers are attributes of the nodes.  One action models one call  *)
(* of a rule's visitor callback on one node.                               *)
(***************************************************************************)
EXTENDS Integers, Sequences, FiniteSets, TLC

VARIABLES
    rule,     \* the rule that is running on the file
    opts,     \* the options the rule was created with
    file,     \* the source file: [text, nodes]
    todo,     \* the nodes the traversal still has to visit, next first
    visited,  \* the nodes the callback has been called on, in order
    diags,    \* the diagnostics reported so far, in order
    status    \* "running", "done" (the rule returned) or "thrown"

vars == <<rule, opts, file, todo, visited, diags, status>>

(***************************************************************************)
(* Bounds of the model.                                                    *)
(***************************************************************************)
\* the largest number of clauses of a generated switch statement
MaxClauses == 3

(***************************************************************************)
(* Types, as the type checker hands them out.  A type is identified by its *)
(* name (the checker interns types, the rules compare them with ===).      *)
(* flags are the type's own ts.TypeFlags, types the constituents of a      *)
(* union or an intersection, truthy the value !!type.value of a literal.   *)
(***************************************************************************)
Atom(n, f, t) == [name |-> n, flags |-> f, types |-> <<>>, truthy |-> t]

TString    == Atom("string", {"String"}, FALSE)
TNumber    == Atom("number", {"Number"}, FALSE)
TObject    == Atom("{p}", {"Object"}, FALSE)
TAny       == Atom("any", {"Any"}, FALSE)
TUnknown   == Atom("unknown", {"Unknown"}, FALSE)
TNever     == Atom("never", {"Never"}, FALSE)
TVoid      == Atom("void", {"Void"}, FALSE)
TUndefined == Atom("undefined", {"Undefined"}, FALSE)
TNull      == Atom("null", {"Null"}, FALSE)
TTrue      == Atom("true", {"BooleanLiteral"}, TRUE)
TFalse     == Atom("false", {"BooleanLiteral"}, FALSE)
TLitA      == Atom("'a'", {"StringLiteral"}, TRUE)
TLitB      == Atom("'b'", {"StringLiteral"}, TRUE)
TLitFoo    == Atom("'foo'", {"StringLiteral"}, TRUE)
TLitEmpty  == Atom("''", {"StringLiteral"}, FALSE)
TLit1      == Atom("1", {"NumberLiteral"}, TRUE)
TLit0      == Atom("0", {"NumberLiteral"}, FALSE)
TLit8      == Atom("8", {"NumberLiteral"}, TRUE)
TSym       == Atom("typeof sym", {"UniqueESSymbol"}, FALSE)
TTuple     == Atom("readonly [1]", {"Object"}, FALSE)
\* a type parameter T extends 'a'
TParamA    == Atom("T", {"TypeParameter"}, FALSE)
\* the members A and 'it''s' of the enum E, and the enum itself
TEnumA     == Atom("E.A", {"EnumLiteral", "StringLiteral"}, TRUE)
TEnumQ     == Atom("E[\"it's\"]", {"EnumLiteral", "StringLiteral"}, TRUE)
TEnum      == [name |-> "E", flags |-> {"EnumLiteral", "Union"},
               types |-> <<TEnumA, TEnumQ>>, truthy |-> FALSE]

UnionOf(parts) ==
    [name |-> "union", flags |-> {"Union"}, types |-> parts, truthy |-> FALSE]
IntersectionOf(parts) ==
    [name |-> "intersection", flags |-> {"Intersection"}, types |-> parts,
     truthy |-> FALSE]

\* the absence of a type (undefined); an absent node is the node id 0
NoType == Atom("<none>", {}, FALSE)

\* ts-api-utils isTypeFlagSet: tests the type's own flags
IsTypeFlagSet(type, flags) == type.flags \cap flags # {}

\* ts-api-utils unionTypeParts / intersectionTypeParts
UnionTypeParts(type) ==
    IF "Union" \in type.flags THEN type.types ELSE <<type>>
IntersectionTypeParts(type) ==
    IF "Intersection" \in type.flags THEN type.types ELSE <<type>>

\* checker.getBaseConstraintOfType: the upper bound of a type parameter
BaseConstraintOfType(type) == IF type = TParamA THEN TLitA ELSE NoType

\* ts.Type.isLiteral(): string, number and bigint literal types
TypeIsLiteral(type) ==
    type.flags \cap {"StringLiteral", "NumberLiteral", "BigIntLiteral"} # {}

(***************************************************************************)
(* Sequence helpers.                                                       *)
(***************************************************************************)
Range(s) == {s[i] : i \in 1..Len(s)}

RECURSIVE Concat(_)
Concat(ss) == IF Len(ss) = 0 THEN <<>> ELSE Head(ss) \o Concat(Tail(ss))

IndexOf(s, x) ==
    IF \E i \in 1..Len(s) : s[i] = x
    THEN CHOOSE i \in 1..Len(s) : s[i] = x /\ \A j \in 1..(i - 1) : s[j] # x
    ELSE 0

Filter(s, P(_)) ==
    LET F[i \in 0..Len(s)] ==
            IF i = 0 THEN <<>>
            ELSE IF P(s[i]) THEN Append(F[i - 1], s[i]) ELSE F[i - 1]
    IN F[Len(s)]

\* all sequences over S of length at most n
SeqsUpTo(S, n) == UNION {[1..k -> S] : k \in 0..n}

(***************************************************************************)
(* Syntax trees.  A file is written down as a term and laid out by Parse,  *)
(* which gives every node its id (pre-order), its parent, its children as  *)
(* node.getChildren() returns them (tokens included), and its positions in *)
(* the text: pos (getFullStart, leading trivia included), start            *)
(* (getStart) and end (getEnd).  `a` holds what the node's own fields and  *)
(* the type checker say about it.                                          *)
(***************************************************************************)
A0 == [type |-> NoType,          \* checker.getTypeAtLocation(node)
       isConst |-> FALSE,        \* VariableDeclarationList: NodeFlags.Const
       spans |-> 0,              \* TemplateExpression: templateSpans.length
       contextual |-> NoType,    \* getContextualType(node), NoType if none
       decl |-> "none",          \* getDeclaration(node): see Declarations
       typeName |-> ""]          \* a type node: typeToString of its type

\* a token that is no field of its parent (punctuation, keywords)
Tok(kind, trivia, text) ==
    [leaf |-> TRUE, kind |-> kind, trivia |-> trivia, text |-> text,
     kids |-> <<>>, each |-> FALSE, a |-> A0]
\* a token that is a field of its parent (operatorToken, questionDotToken)
PropTok(kind, trivia, text) ==
    [leaf |-> TRUE, kind |-> kind, trivia |-> trivia, text |-> text,
     kids |-> <<>>, each |-> TRUE, a |-> A0]
\* a node without children (identifier, literal, keyword expression)
Leaf(kind, trivia, text, a) ==
    [leaf |-> TRUE, kind |-> kind, trivia |-> trivia, text |-> text,
     kids |-> <<>>, each |-> TRUE, a |-> a]
Node(kind, kids, a) ==
    [leaf |-> FALSE, kind |-> kind, trivia |-> "", text |-> "",
     kids |-> kids, each |-> TRUE, a |-> a]
\* the SyntaxList that getChildren() makes of a NodeArray
List(kids) ==
    [leaf |-> FALSE, kind |-> "SyntaxList", trivia |-> "", text |-> "",
     kids |-> kids, each |-> FALSE, a |-> A0]

\* the number of nodes of a term
RECURSIVE Size(_)
Size(term) ==
    LET F[i \in 0..Len(term.kids)] ==
            IF i = 0 THEN 1 ELSE F[i - 1] + Size(term.kids[i])
    IN  F[Len(term.kids)]

\* the nodes of a term in pre-order, the term itself getting the id `id`.
\* parent is the node's parent, holder the node whose getChildren() lists
\* it: they differ for the elements of a NodeArray, which getChildren()
\* wraps in a SyntaxList.
RECURSIVE Flatten(_, _, _, _)
Flatten(term, id, parent, holder) ==
    LET owner == IF term.kind = "SyntaxList" THEN parent ELSE id
        at[i \in 1..Len(term.kids)] ==
            IF i = 1 THEN id + 1 ELSE at[i - 1] + Size(term.kids[i - 1])
    IN  <<[kind |-> term.kind, parent |-> parent, holder |-> holder,
           leaf |-> term.leaf, trivia |-> term.trivia, text |-> term.text,
           each |-> term.each, a |-> term.a, size |-> Size(term)]>>
        \o Concat([i \in 1..Len(term.kids) |->
                     Flatten(term.kids[i], at[i], owner, id)])

\* the layout of the nodes es (in pre-order): the text and the positions
Layout(es) ==
    LET n  == Len(es)
        width(i) == IF es[i].leaf
                    THEN Len(es[i].trivia) + Len(es[i].text) ELSE 0
        \* the offset at which node i's leading trivia starts
        pos[i \in 1..(n + 1)] == IF i = 1 THEN 0 ELSE pos[i - 1] + width(i - 1)
        text[i \in 0..n] ==
            IF i = 0 THEN ""
            ELSE IF es[i].leaf THEN text[i - 1] \o es[i].trivia \o es[i].text
            ELSE text[i - 1]
        \* the first token of node i, or the first empty node before one
        first(i) == CHOOSE j \in i..n :
                        /\ es[j].leaf \/ es[j].size = 1
                        /\ \A k \in i..(j - 1) : ~es[k].leaf /\ es[k].size > 1
        kids(i) == Filter([k \in 1..(es[i].size - 1) |-> i + k],
                          LAMBDA j : es[j].holder = i)
    IN  [text |-> text[n],
         nodes |-> [i \in 1..n |->
            [kind |-> es[i].kind, parent |-> es[i].parent, pos |-> pos[i],
             start |-> pos[first(i)] + Len(es[first(i)].trivia),
             end |-> pos[i + es[i].size],
             kids |-> kids(i), each |-> es[i].each, a |-> es[i].a]]]

\* the source file of a term: the SourceFile node is node 1
Parse(term) == CHOOSE f \in {Layout(es) : es \in {Flatten(term, 1, 0, 0)}} : TRUE

EndOfFile == Leaf("EndOfFileToken", "\n", "", A0)
SourceFile(statements) ==
    Node("SourceFile", <<List(statements), EndOfFile>>, A0)

(***************************************************************************)
(* Reading the tree.                                                       *)
(***************************************************************************)
N(f, id) == f.nodes[id]
NodeIds(f) == 1..Len(f.nodes)

\* node.getText(sourceFile) and sourceFile.text.slice(from, to)
Slice(f, from, to) == SubSeq(f.text, from + 1, to)
GetText(f, id) == Slice(f, N(f, id).start, N(f, id).end)

\* node.forEachChild: the node's fields in source order, arrays flattened
ForEachChild(f, id) ==
    Concat([i \in 1..Len(N(f, id).kids) |->
              LET k == N(f, id).kids[i]
              IN  IF N(f, k).kind = "SyntaxList" THEN N(f, k).kids
                  ELSE IF N(f, k).each THEN <<k>> ELSE <<>>])

\* the k-th child of kind `kind` among getChildren(), 0 if there is none
ChildOfKind(f, id, kind) ==
    LET ks == Filter(N(f, id).kids, LAMBDA k : N(f, k).kind = kind)
    IN  IF Len(ks) = 0 THEN 0 ELSE ks[1]

(***************************************************************************)
(* Diagnostics.  report(message, start, end) appends a diagnostic;         *)
(* withFix(...) attaches a callback that the host evaluates later (or      *)
(* never).  fix describes the callback, fixState is "none" (no fix),       *)
(* "pending" (not evaluated), "ok" (returned edits) or "threw".            *)
(***************************************************************************)
NoFix == [kind |-> "none", node |-> 0, arg |-> ""]
Fix(kind, node, arg) == [kind |-> kind, node |-> node, arg |-> arg]

Report(message, start, end) ==
    [message |-> message, start |-> start, end |-> end,
     fix |-> NoFix, fixState |-> "none", edits |-> <<>>]
WithFix(d, fix) == [d EXCEPT !.fix = fix, !.fixState = "pending"]

TextChange(start, length, newText) ==
    [start |-> start, length |-> length, newText |-> newText]

\* the text after a fix's edits are applied (one edit, or edits that do
\* not overlap, applied from the last to the first)
ApplyEdit(text, e) ==
    SubSeq(text, 1, e.start) \o e.newText
        \o SubSeq(text, e.start + e.length + 1, Len(text))

(***************************************************************************)
(* What a call of a visitor callback does: the diagnostics it reports, in  *)
(* order, whether it goes on to node.forEachChild(cb), and whether it      *)
(* throws.                                                                 *)
(***************************************************************************)
Outcome(reports, descend, throws) ==
    [reports |-> reports, descend |-> descend, throws |-> throws]

(***************************************************************************)
(* Switch statements, the input of no-duplicate-case and of                *)
(* switch-exhaustiveness-check.                                            *)
(***************************************************************************)
CaseLabels == {"'a'", "'b'", "1"}
ClauseChoices == CaseLabels \cup {"default"}

\* the type of a case expression of that text
LabelType(l) ==
    CASE l = "'a'" -> TLitA
      [] l = "'b'" -> TLitB
      [] l = "1"   -> TLit1

LabelTerm(l) ==
    Leaf(IF l = "1" THEN "NumericLiteral" ELSE "StringLiteral", " ", l,
         [A0 EXCEPT !.type = LabelType(l)])

ClauseTerm(l, indent, statements) ==
    IF l = "default"
    THEN Node("DefaultClause",
              <<Tok("DefaultKeyword", indent, "default"),
                Tok("ColonToken", "", ":"), List(statements)>>, A0)
    ELSE Node("CaseClause",
              <<Tok("CaseKeyword", indent, "case"), LabelTerm(l),
                Tok("ColonToken", "", ":"), List(statements)>>, A0)

\* switch (<name>) { <clauses> }, the statements `first` in its first clause
SwitchTerm(name, type, labels, indent, first) ==
    Node("SwitchStatement",
         <<Tok("SwitchKeyword", indent, "switch"),
           Tok("OpenParenToken", " ", "("),
           Leaf("Identifier", "", name, [A0 EXCEPT !.type = type]),
           Tok("CloseParenToken", "", ")"),
           Node("CaseBlock",
                <<Tok("OpenBraceToken", " ", "{"),
                  List([i \in 1..Len(labels) |->
                          ClauseTerm(labels[i], indent \o "  ",
                                     IF i = 1 THEN first ELSE <<>>)]),
                  Tok("CloseBraceToken", indent, "}")>>, A0)>>, A0)

\* a file with one switch, and (nested = TRUE) a switch over `y` of the same
\* type in its first clause
SwitchFile(type, labels, nested, innerLabels) ==
    Parse(SourceFile(
        <<SwitchTerm("x", type, labels, "\n",
            IF nested /\ labels # <<>>
            THEN <<SwitchTerm("y", type, innerLabels, "\n    ", <<>>)>>
            ELSE <<>>)>>))

\* at most one default clause is allowed in a switch
AtMostOneDefault(labels) ==
    Cardinality({i \in 1..Len(labels) : labels[i] = "default"}) <= 1

ClauseSeqs == {ls \in SeqsUpTo(ClauseChoices, MaxClauses) : AtMostOneDefault(ls)}
InnerClauseSeqs ==
    {ls \in SeqsUpTo({"'a'", "default"}, 2) : AtMostOneDefault(ls)}

\* the fields of the nodes of a switch statement
SwitchExpression(f, sw) == N(f, sw).kids[3]
CaseBlock(f, sw) == N(f, sw).kids[5]
Clauses(f, sw) == N(f, N(f, CaseBlock(f, sw)).kids[2]).kids
ClauseExpression(f, c) == N(f, c).kids[2]
IsCaseClause(f, c) == N(f, c).kind = "CaseClause"
IsSwitchStatement(f, n) == N(f, n).kind = "SwitchStatement"

(***************************************************************************)
(* Rule no-duplicate-case.                                                 *)
(***************************************************************************)
\* seenLabels = new Set<string>(), created for each switch statement
NewSeenLabelsShared(f, sw) ==
    {GetText(f, ClauseExpression(f, c)) :
        c \in {c \in NodeIds(f) : IsCaseClause(f, c) /\ N(f, c).parent < sw}}
NewSeenLabels(f, sw) == {}

\* the loop over the case clauses
RECURSIVE DupCaseLoop(_, _, _, _)
DupCaseLoop(f, caseClauses, seenLabels, reports) ==
    IF Len(caseClauses) = 0 THEN reports
    ELSE LET clause == Head(caseClauses)
             label  == GetText(f, ClauseExpression(f, clause))
         IN  IF label \in seenLabels
             THEN DupCaseLoop(f, Tail(caseClauses), seenLabels,
                     Append(reports,
                            Report("Disallow duplicate case labels",
                                   N(f, clause).start, N(f, clause).end)))
             ELSE DupCaseLoop(f, Tail(caseClauses),
                              seenLabels \cup {label}, reports)

\* the callback cb of no-duplicate-case
DupCaseVisit(f, node) ==
    IF IsSwitchStatement(f, node)
    THEN LET caseClauses ==
                 Filter(Clauses(f, node), LAMBDA c : IsCaseClause(f, c))
         IN  Outcome(DupCaseLoop(f, caseClauses, NewSeenLabels(f, node), <<>>),
                     TRUE, FALSE)
    ELSE Outcome(<<>>, TRUE, FALSE)

(***************************************************************************)
(* The traversal: ts.forEachChild(sourceFile, cb), where cb handles the    *)
(* node and then calls forEachChild(node, cb) unless it returned early.    *)
(***************************************************************************)
\* the default values of the rules' options
DefaultOpts ==
    [allowDefaultCaseForExhaustiveSwitch |-> TRUE,
     requireDefaultForNonUnion |-> FALSE]

Start(r, o, f) ==
    /\ rule = r
    /\ opts = o
    /\ file = f
    /\ todo = ForEachChild(f, 1)
    /\ visited = <<>>
    /\ diags = <<>>
    /\ status = "running"

\* one call of the callback, with what it does to the traversal
Step(out) ==
    /\ visited' = Append(visited, Head(todo))
    /\ diags' = diags \o out.reports
    /\ IF out.throws
       THEN /\ status' = "thrown"
            /\ todo' = <<>>
       ELSE /\ status' = status
            /\ todo' = (IF out.descend THEN ForEachChild(file, Head(todo))
                        ELSE <<>>) \o Tail(todo)
    /\ UNCHANGED <<rule, opts, file>>

\* the traversal is over and the rule returns
Return ==
    /\ status = "running"
    /\ todo = <<>>
    /\ status' = "done"
    /\ UNCHANGED <<rule, opts, file, todo, visited, diags>>

DupCaseInit ==
    \E ls \in ClauseSeqs, nested \in BOOLEAN, inner \in InnerClauseSeqs :
        /\ nested \/ inner = <<>>
        /\ Start("no-duplicate-case", DefaultOpts,
                 SwitchFile(TString, ls, nested, inner))

DupCaseCallback ==
    /\ rule = "no-duplicate-case"
    /\ status = "running"
    /\ todo # <<>>
    /\ Step(DupCaseVisit(file, Head(todo)))

DupCaseNext == DupCaseCallback \/ Return

SpecDupCase == DupCaseInit /\ [][DupCaseNext]_vars

(***************************************************************************)
(* Rule switch-exhaustiveness-check.                                       *)
(***************************************************************************)
\* getConstrainedTypeAtLocation(checker, node)
GetConstrainedTypeAtLocation(f, node) ==
    LET nodeType    == N(f, node).a.type
        constrained == BaseConstraintOfType(nodeType)
    IN  IF constrained # NoType THEN constrained ELSE nodeType

\* type.getSymbol()?.escapedName, "" if the type has no symbol
SymbolNameOf(type) ==
    CASE type = TSym -> "sym"
      [] type = TEnum -> "E"
      [] type = TEnumA -> "A"
      [] type = TEnumQ -> "it's"
      [] OTHER -> ""

\* checker.typeToString(type)
TypeToString(type) == type.name

IsTypeLiteralLikeTypeNoNull(type) ==
    IsTypeFlagSet(type, {"StringLiteral", "NumberLiteral", "BigIntLiteral",
                         "BooleanLiteral", "Undefined", "UniqueESSymbol"})
IsTypeLiteralLikeType(type) ==
    IsTypeFlagSet(type, {"StringLiteral", "NumberLiteral", "BigIntLiteral",
                         "BooleanLiteral", "Undefined", "Null",
                         "UniqueESSymbol"})

DoesTypeContainNonLiteralType(type) ==
    \E i \in 1..Len(UnionTypeParts(type)) :
        \A subType \in Range(IntersectionTypeParts(UnionTypeParts(type)[i])) :
            ~IsTypeLiteralLikeType(subType)

\* the first default clause of the switch, 0 if it has none
DefaultCase(f, sw) ==
    LET ds == Filter(Clauses(f, sw), LAMBDA c : N(f, c).kind = "DefaultClause")
    IN  IF Len(ds) = 0 THEN 0 ELSE ds[1]

\* the set caseTypes of the types of the case expressions
CaseTypes(f, sw) ==
    {GetConstrainedTypeAtLocation(f, ClauseExpression(f, c)) :
        c \in {c \in Range(Clauses(f, sw)) : N(f, c).kind # "DefaultClause"}}

\* the parts of the union-by-intersection decomposition, in order
DecompositionOf(type) ==
    Concat([i \in 1..Len(UnionTypeParts(type)) |->
              IntersectionTypeParts(UnionTypeParts(type)[i])])

MissingLiteralBranchTypes(f, sw, caseTypes, discriminantType) ==
    Filter(DecompositionOf(discriminantType),
           LAMBDA part : ~(part \in caseTypes \/ ~IsTypeLiteralLikeType(part)))

GetSwitchMetadata(f, sw) ==
    LET discriminantType ==
            GetConstrainedTypeAtLocation(f, SwitchExpression(f, sw))
    IN  [symbolName |-> SymbolNameOf(discriminantType),
         missingLiteralBranchTypes |->
            MissingLiteralBranchTypes(f, sw, CaseTypes(f, sw), discriminantType),
         defaultCase |-> DefaultCase(f, sw),
         containsNonLiteralType |->
            DoesTypeContainNonLiteralType(discriminantType)]

\* strings.join(separator)
RECURSIVE Join(_, _)
Join(strings, separator) ==
    IF Len(strings) = 0 THEN ""
    ELSE IF Len(strings) = 1 THEN strings[1]
    ELSE strings[1] \o separator \o Join(Tail(strings), separator)

MissingBranchName(type) ==
    IF IsTypeFlagSet(type, {"ESSymbol", "UniqueESSymbol"})
    THEN "typeof " \o SymbolNameOf(type)
    ELSE TypeToString(type)

NotExhaustive == "Switch is not exhaustive. Cases not matched: "

CheckSwitchExhaustive(f, sw, m) ==
    IF Len(m.missingLiteralBranchTypes) > 0 /\ m.defaultCase = 0
    THEN <<WithFix(
             Report(NotExhaustive \o
                      Join([i \in 1..Len(m.missingLiteralBranchTypes) |->
                              MissingBranchName(m.missingLiteralBranchTypes[i])],
                           " | "),
                    N(f, sw).start, N(f, sw).end),
             Fix("fixSwitch", sw, "missing"))>>
    ELSE <<>>

UnnecessaryDefault ==
    "The switch statement is exhaustive, so the default case is unnecessary."

CheckSwitchUnnecessaryDefaultCaseAnyType(f, o, m) ==
    IF o.allowDefaultCaseForExhaustiveSwitch THEN <<>>
    ELSE IF Len(m.missingLiteralBranchTypes) = 0 /\ m.defaultCase # 0
    THEN <<Report(UnnecessaryDefault,
                  N(f, m.defaultCase).start, N(f, m.defaultCase).end)>>
    ELSE <<>>

CheckSwitchUnnecessaryDefaultCase(f, o, m) ==
    IF o.allowDefaultCaseForExhaustiveSwitch THEN <<>>
    ELSE IF /\ Len(m.missingLiteralBranchTypes) = 0
            /\ m.defaultCase # 0
            /\ ~m.containsNonLiteralType
    THEN <<Report(UnnecessaryDefault,
                  N(f, m.defaultCase).start, N(f, m.defaultCase).end)>>
    ELSE <<>>

CheckSwitchNoUnionDefaultCaseSwapped(f, o, sw, m) ==
    IF ~o.requireDefaultForNonUnion THEN <<>>
    ELSE IF m.containsNonLiteralType /\ m.defaultCase = 0
    THEN <<WithFix(Report(NotExhaustive \o "default",
                          N(f, sw).end, N(f, SwitchExpression(f, sw)).start),
                   Fix("fixSwitch", sw, "default"))>>
    ELSE <<>>

CheckSwitchNoUnionDefaultCaseAlways(f, o, sw, m) ==
    IF ~o.requireDefaultForNonUnion THEN <<>>
    ELSE IF m.containsNonLiteralType
    THEN <<WithFix(Report(NotExhaustive \o "default",
                          N(f, SwitchExpression(f, sw)).start, N(f, sw).end),
                   Fix("fixSwitch", sw, "default"))>>
    ELSE <<>>

CheckSwitchNoUnionDefaultCase(f, o, sw, m) ==
    IF ~o.requireDefaultForNonUnion THEN <<>>
    ELSE IF m.containsNonLiteralType /\ m.defaultCase = 0
    THEN <<WithFix(Report(NotExhaustive \o "default",
                          N(f, SwitchExpression(f, sw)).start, N(f, sw).end),
                   Fix("fixSwitch", sw, "default"))>>
    ELSE <<>>

\* the callback cb of switch-exhaustiveness-check
SwitchVisit(f, o, node) ==
    IF IsSwitchStatement(f, node)
    THEN LET m == CHOOSE m \in {GetSwitchMetadata(f, node)} : TRUE
         IN  Outcome(CheckSwitchExhaustive(f, node, m)
                       \o CheckSwitchUnnecessaryDefaultCase(f, o, m)
                       \o CheckSwitchNoUnionDefaultCase(f, o, node, m),
                     TRUE, FALSE)
    ELSE Outcome(<<>>, TRUE, FALSE)

\* the types of the discriminants of the generated switch statements
DiscriminantTypes ==
    {TString, TLitA, TParamA,
     UnionOf(<<TLitA, TLitB>>),
     UnionOf(<<TLitA, TNumber>>),
     UnionOf(<<TNull, TLitB, TSym>>),
     UnionOf(<<IntersectionOf(<<TLitA, TObject>>), TLit1>>),
     UnionOf(<<IntersectionOf(<<TLitA, TObject>>),
               IntersectionOf(<<TLitA, TTuple>>)>>)}

SwitchOpts ==
    [allowDefaultCaseForExhaustiveSwitch : BOOLEAN,
     requireDefaultForNonUnion : BOOLEAN]

SwitchInit ==
    \E type \in DiscriminantTypes, ls \in ClauseSeqs, nested \in BOOLEAN,
       inner \in {<<>>, <<"'a'">>}, o \in SwitchOpts :
        /\ nested \/ inner = <<>>
        /\ Start("switch-exhaustiveness-check", o,
                 SwitchFile(type, ls, nested, inner))

SwitchCallback ==
    /\ rule = "switch-exhaustiveness-check"
    /\ status = "running"
    /\ todo # <<>>
    /\ Step(SwitchVisit(file, opts, Head(todo)))

SwitchNext == SwitchCallback \/ Return

SpecSwitch == SwitchInit /\ [][SwitchNext]_vars

(***************************************************************************)
(* C7  no-duplicate-case: within each switch statement a case clause gets  *)
(* exactly one diagnostic if and only if an earlier case clause of the     *)
(* same switch has the same label text; first occurrences and default      *)
(* clauses get none, and the labels of one switch (an enclosing or nested  *)
(* one) never influence another switch.                                    *)
(***************************************************************************)
DiagsOn(f, node) ==
    {i \in 1..Len(diags) :
        diags[i].start = N(f, node).start /\ diags[i].end = N(f, node).end}

IsDuplicateLabel(f, sw, c) ==
    /\ IsCaseClause(f, c)
    /\ \E c2 \in Range(Clauses(f, sw)) :
          /\ IsCaseClause(f, c2)
          /\ c2 < c
          /\ GetText(f, ClauseExpression(f, c2)) = GetText(f, ClauseExpression(f, c))

C7_DuplicateCase ==
    \A sw \in NodeIds(file) : IsSwitchStatement(file, sw) =>
        \A c \in Range(Clauses(file, sw)) :
            Cardinality(DiagsOn(file, c)) =
                IF sw \in Range(visited) /\ IsDuplicateLabel(file, sw, c)
                THEN 1 ELSE 0

\* a nested switch repeats a label of the enclosing switch, which has a
\* duplicate of its own: only the latter is flagged
C7_Witness ==
    /\ status = "done"
    /\ \E sw \in NodeIds(file), inner \in NodeIds(file) :
          /\ IsSwitchStatement(file, sw) /\ IsSwitchStatement(file, inner)
          /\ sw < inner
          /\ \E c \in Range(Clauses(file, sw)) : DiagsOn(file, c) # {}
          /\ \E c \in Range(Clauses(file, sw)), c2 \in Range(Clauses(file, inner)) :
                /\ IsCaseClause(file, c) /\ IsCaseClause(file, c2)
                /\ GetText(file, ClauseExpression(file, c))
                     = GetText(file, ClauseExpression(file, c2))
                /\ DiagsOn(file, c2) = {}

(***************************************************************************)
(* C1  switch-exhaustiveness-check.  As claimed: a 'Switch is not          *)
(* exhaustive' diagnostic is reported on a switch statement if and only if *)
(* the switch has no default clause and at least one literal-like part     *)
(* (literal, null, undefined, unique symbol) of the union-by-intersection  *)
(* decomposition of the discriminant's constrained type is not the type of *)
(* any case expression; the message lists exactly those parts, in order.   *)
(***************************************************************************)
LiteralLikeTypes ==
    {TTrue, TFalse, TLitA, TLitB, TLitFoo, TLitEmpty, TLit1, TLit0, TLit8,
     TNull, TUndefined, TSym, TEnumA, TEnumQ}

ConstrainedType(f, node) ==
    IF N(f, node).a.type = TParamA THEN TLitA ELSE N(f, node).a.type

\* the literal-like parts of the discriminant's type that no case tests
UncoveredParts(f, sw) ==
    LET type == ConstrainedType(f, SwitchExpression(f, sw))
        parts == Concat([i \in 1..Len(UnionTypeParts(type)) |->
                           IntersectionTypeParts(UnionTypeParts(type)[i])])
    IN  Filter(parts, LAMBDA part :
            /\ part \in LiteralLikeTypes
            /\ \A c \in Range(Clauses(f, sw)) :
                  IsCaseClause(f, c) =>
                      ConstrainedType(f, ClauseExpression(f, c)) # part)

HasDefaultClause(f, sw) ==
    \E c \in Range(Clauses(f, sw)) : N(f, c).kind = "DefaultClause"

StartsWith(string, prefix) ==
    Len(string) >= Len(prefix) /\ SubSeq(string, 1, Len(prefix)) = prefix

ListedParts(f, sw) ==
    Join([i \in 1..Len(UncoveredParts(f, sw)) |->
            IF UncoveredParts(f, sw)[i] = TSym THEN "typeof sym"
            ELSE UncoveredParts(f, sw)[i].name], " | ")

\* the 'Switch is not exhaustive' diagnostics reported on the switch sw
NotExhaustiveDiags(f, sw) ==
    {i \in 1..Len(diags) :
        /\ StartsWith(diags[i].message, "Switch is not exhaustive")
        /\ diags[i].end = N(f, sw).end
        /\ diags[i].start \in {N(f, sw).start, N(f, SwitchExpression(f, sw)).start}}

C1_Original ==
    \A sw \in Range(visited) : IsSwitchStatement(file, sw) =>
        /\ NotExhaustiveDiags(file, sw) # {}
              <=> (~HasDefaultClause(file, sw) /\ Len(UncoveredParts(file, sw)) > 0)
        /\ \A i \in NotExhaustiveDiags(file, sw) :
              diags[i].message = NotExhaustive \o ListedParts(file, sw)

(***************************************************************************)
(* C1 as amended: the diagnostic that spans the whole switch statement is  *)
(* reported (once) if and only if the switch has no default clause and at  *)
(* least one literal-like part is uncovered, and lists exactly those parts *)
(* in decomposition order; a second 'Switch is not exhaustive' diagnostic, *)
(* listing `default` and starting at the discriminant, is reported if and  *)
(* only if requireDefaultForNonUnion is set, the switch has no default     *)
(* clause and some union constituent of the type has no literal-like part. *)
(***************************************************************************)
MissingBranchDiags(f, sw) ==
    {i \in NotExhaustiveDiags(f, sw) : diags[i].start = N(f, sw).start}
MissingDefaultDiags(f, sw) ==
    {i \in NotExhaustiveDiags(f, sw) :
        diags[i].start = N(f, SwitchExpression(f, sw)).start}

HasNonLiteralConstituent(f, sw) ==
    LET type == ConstrainedType(f, SwitchExpression(f, sw))
    IN  \E u \in Range(UnionTypeParts(type)) :
            Range(IntersectionTypeParts(u)) \cap LiteralLikeTypes = {}

C1_Exhaustive ==
    \A sw \in NodeIds(file) : IsSwitchStatement(file, sw) =>
        /\ Cardinality(MissingBranchDiags(file, sw)) =
              IF /\ sw \in Range(visited)
                 /\ ~HasDefaultClause(file, sw)
                 /\ Len(UncoveredParts(file, sw)) > 0
              THEN 1 ELSE 0
        /\ \A i \in MissingBranchDiags(file, sw) :
              diags[i].message = NotExhaustive \o ListedParts(file, sw)
        /\ Cardinality(MissingDefaultDiags(file, sw)) =
              IF /\ sw \in Range(visited)
                 /\ opts.requireDefaultForNonUnion
                 /\ ~HasDefaultClause(file, sw)
                 /\ HasNonLiteralConstituent(file, sw)
              THEN 1 ELSE 0
        /\ \A i \in MissingDefaultDiags(file, sw) :
              diags[i].message = NotExhaustive \o "default"

\* a switch with a case that covers one part and two parts left uncovered
C1_Witness ==
    /\ status = "done"
    /\ \E sw \in Range(visited) :
          /\ IsSwitchStatement(file, sw)
          /\ Len(UncoveredParts(file, sw)) = 2
          /\ \E c \in Range(Clauses(file, sw)) :
                /\ IsCaseClause(file, c)
                /\ ConstrainedType(file, ClauseExpression(file, c))
                     \in Range(UnionTypeParts(ConstrainedType(file, SwitchExpression(file, sw))))
          /\ \E i \in MissingBranchDiags(file, sw) :
                diags[i].message = NotExhaustive \o "null | typeof sym"

(***************************************************************************)
(* Declarations and expressions, the input of no-unnecessary-type-assertion *)
(***************************************************************************)
TLit3      == Atom("3", {"NumberLiteral"}, TRUE)
TLit5      == Atom("5", {"NumberLiteral"}, TRUE)
TLitAB     == Atom("'ab'", {"StringLiteral"}, TRUE)
TArray     == Atom("number[]", {"Object"}, FALSE)
\* the `undefined` of a missing optional property (exactOptionalPropertyTypes)
TMissing   == Atom("missing", {"Undefined"}, FALSE)
TStringOrUndefined == UnionOf(<<TString, TUndefined>>)
TStringOrNull      == UnionOf(<<TString, TNull>>)
TStringOrNumber    == UnionOf(<<TString, TNumber>>)
TStringOrNullish   == UnionOf(<<TString, TNull, TUndefined>>)

WithType(t) == [A0 EXCEPT !.type = t]
Ident(trivia, name, a) == Leaf("Identifier", trivia, name, a)

\* a type node; its `type` is checker.getTypeFromTypeNode(node)
TypeNodeTerm(tn, trivia) ==
    CASE tn = "const" ->
           Node("TypeReference", <<Ident(trivia, "const", A0)>>, WithType(TAny))
      [] tn = "'foo'" ->
           Node("LiteralType",
                <<Leaf("StringLiteral", trivia, tn, WithType(TLitFoo))>>,
                WithType(TLitFoo))
      [] tn = "'ab'" ->
           Node("LiteralType",
                <<Leaf("StringLiteral", trivia, tn, WithType(TLitAB))>>,
                WithType(TLitAB))
      [] tn = "number" -> Leaf("NumberKeyword", trivia, tn, WithType(TNumber))
      [] tn = "string" -> Leaf("StringKeyword", trivia, tn, WithType(TString))
      [] tn = "undefined" ->
           Leaf("UndefinedKeyword", trivia, tn, WithType(TUndefined))

\* a reference to the type alias `name` of the type t
AliasTerm(trivia, name, t) ==
    Node("TypeReference", <<Ident(trivia, name, A0)>>, WithType(t))

\* the operand of an assertion, of type t
OperandTerm(op, trivia, t) ==
    CASE op = "str" -> Leaf("StringLiteral", trivia, "'foo'", WithType(t))
      [] op = "true" -> Leaf("TrueKeyword", trivia, "true", WithType(t))
      [] op = "ident" -> Ident(trivia, "a", WithType(t))
      [] op = "paren" ->
           Node("ParenthesizedExpression",
                <<Tok("OpenParenToken", trivia, "("),
                  Node("BinaryExpression",
                       <<Leaf("NumericLiteral", "", "3", WithType(TLit3)),
                         PropTok("PlusToken", " ", "+"),
                         Leaf("NumericLiteral", " ", "5", WithType(TLit5))>>,
                       WithType(TNumber)),
                  Tok("CloseParenToken", "", ")")>>, WithType(t))
      \* a template literal with one interpolation; its back quotes are
      \* written as ' here, a string of the model cannot hold a back quote
      [] op = "tmpl" ->
           Node("TemplateExpression",
                <<Leaf("TemplateHead", trivia, "'a${", A0),
                  List(<<Node("TemplateSpan",
                              <<Ident("", "b", WithType(TLitB)),
                                Leaf("TemplateTail", "", "}'", A0)>>, A0)>>)>>,
                WithType(t))
      [] op = "array" ->
           Node("ArrayLiteralExpression",
                <<Tok("OpenBracketToken", trivia, "["),
                  List(<<Leaf("NumericLiteral", "", "1", WithType(TLit1))>>),
                  Tok("CloseBracketToken", "", "]")>>, WithType(t))
      [] op = "call" ->
           Node("CallExpression",
                <<Ident(trivia, "g", A0), Tok("OpenParenToken", "", "("),
                  List(<<>>), Tok("CloseParenToken", "", ")")>>, WithType(t))

\* `e as T` (style "as") or `<T>e` (style "angle"), of type cast
AssertionTerm(style, trivia, op, uncast, tn, cast) ==
    IF style = "as"
    THEN Node("AsExpression",
              <<OperandTerm(op, trivia, uncast),
                Tok("AsKeyword", " ", "as"), TypeNodeTerm(tn, " ")>>,
              WithType(cast))
    ELSE Node("TypeAssertionExpression",
              <<Tok("LessThanToken", trivia, "<"), TypeNodeTerm(tn, ""),
                Tok("GreaterThanToken", "", ">"),
                OperandTerm(op, "", uncast)>>, WithType(cast))

\* [declare] const|let <name>[!][: <typ>][ = <init>];  typ and init are
\* empty or hold one term
VarStatement(declare, kw, name, excl, typ, init) ==
    Node("VariableStatement",
         (IF declare
          THEN <<List(<<Tok("DeclareKeyword", "\n", "declare")>>)>>
          ELSE <<>>)
         \o <<Node("VariableDeclarationList",
                <<Tok(IF kw = "const" THEN "ConstKeyword" ELSE "LetKeyword",
                      IF declare THEN " " ELSE "\n", kw),
                  List(<<Node("VariableDeclaration",
                     <<Ident(" ", name, A0)>>
                     \o (IF excl THEN <<PropTok("ExclamationToken", "", "!")>>
                         ELSE <<>>)
                     \o (IF Len(typ) = 0 THEN <<>>
                         ELSE <<Tok("ColonToken", "", ":"), typ[1]>>)
                     \o (IF Len(init) = 0 THEN <<>>
                         ELSE <<Tok("EqualsToken", " ", "="), init[1]>>),
                     A0)>>)>>,
                [A0 EXCEPT !.isConst = (kw = "const")]),
              Tok("SemicolonToken", "", ";")>>, A0)

ExprStatement(e) ==
    Node("ExpressionStatement", <<e, Tok("SemicolonToken", "", ";")>>, A0)

Parenthesized(trivia, e) ==
    Node("ParenthesizedExpression",
         <<Tok("OpenParenToken", trivia, "("), e,
           Tok("CloseParenToken", "", ")")>>, A0)

\* the k-th child after the first child of kind `kind`, 0 if there is none
ChildAfterKind(f, id, kind) ==
    LET ks == N(f, id).kids
        i  == IndexOf([j \in 1..Len(ks) |-> N(f, ks[j]).kind], kind)
    IN  IF i = 0 \/ i = Len(ks) THEN 0 ELSE ks[i + 1]

\* the fields of the nodes of declarations and expressions
Initializer(f, d) == ChildAfterKind(f, d, "EqualsToken")
DeclaredTypeNode(f, d) == ChildAfterKind(f, d, "ColonToken")
ExclamationTokenOf(f, d) == ChildOfKind(f, d, "ExclamationToken")
Modifiers(f, s) ==
    IF N(f, N(f, s).kids[1]).kind = "SyntaxList"
    THEN N(f, N(f, s).kids[1]).kids ELSE <<>>
IsAsExpression(f, n) == N(f, n).kind = "AsExpression"
IsTypeAssertionExpression(f, n) == N(f, n).kind = "TypeAssertionExpression"
IsNonNullExpression(f, n) == N(f, n).kind = "NonNullExpression"
IsBinaryExpression(f, n) == n # 0 /\ N(f, n).kind = "BinaryExpression"
IsIdentifier(f, n) == N(f, n).kind = "Identifier"
\* node.expression and node.type of an assertion
AssertedExpression(f, n) ==
    IF IsTypeAssertionExpression(f, n) THEN N(f, n).kids[4] ELSE N(f, n).kids[1]
AssertedTypeNode(f, n) ==
    IF IsTypeAssertionExpression(f, n) THEN N(f, n).kids[2] ELSE N(f, n).kids[3]
\* left, operatorToken and right of a binary expression
Left(f, n) == N(f, n).kids[1]
OperatorToken(f, n) == N(f, n).kids[2]
Right(f, n) == N(f, n).kids[3]
TemplateSpans(f, n) == N(f, N(f, n).kids[2]).kids

(***************************************************************************)
(* Rule no-unnecessary-type-assertion.                                     *)
(***************************************************************************)
\* getDeclaration(checker, node): the first declaration of the node's
\* symbol, 0 if the symbol has none
GetDeclaration(f, node) ==
    IF N(f, node).a.decl = "none" THEN 0
    ELSE CHOOSE d \in NodeIds(f) :
            /\ N(f, d).kind = "VariableDeclaration"
            /\ GetText(f, N(f, d).kids[1]) = GetText(f, node)

\* isNullableType(type): some constituent is null or undefined
IsNullableType(type) ==
    \E part \in Range(UnionTypeParts(type)) :
        IsTypeFlagSet(part, {"Null", "Undefined"})

\* getContextualType(ts, checker, node), NoType if there is none
GetContextualType(f, node) == N(f, node).a.contextual

\* what isPossiblyUsedBeforeAssigned says of a declaration that was found
UsedBeforeAssignedByDeclaration(f, o, node, declaration) ==
    IF /\ o.strictNullChecks
       /\ N(f, declaration).kind = "VariableDeclaration"
       /\ Initializer(f, declaration) = 0
       /\ ExclamationTokenOf(f, declaration) = 0
       /\ DeclaredTypeNode(f, declaration) # 0
    THEN LET declarationType ==
                 N(f, DeclaredTypeNode(f, declaration)).a.type
             type == GetConstrainedTypeAtLocation(f, node)
             statement == N(f, N(f, declaration).parent).parent
         IN  /\ declarationType = type
             /\ ~ /\ N(f, statement).kind = "VariableStatement"
                  /\ \E mod \in Range(Modifiers(f, statement)) :
                        N(f, mod).kind = "DeclareKeyword"
    ELSE FALSE

IsPossiblyUsedBeforeAssignedKnown(f, o, node) ==
    LET declaration == GetDeclaration(f, node)
    IN  IF declaration = 0 THEN FALSE
        ELSE UsedBeforeAssignedByDeclaration(f, o, node, declaration)
IsPossiblyUsedBeforeAssigned(f, o, node) ==
    LET declaration == GetDeclaration(f, node)
    IN  IF declaration = 0 THEN TRUE
        ELSE UsedBeforeAssignedByDeclaration(f, o, node, declaration)

IsConstAssertionNever(f, typeNode) == FALSE
IsConstAssertion(f, typeNode) ==
    /\ N(f, typeNode).kind = "TypeReference"
    /\ IsIdentifier(f, N(f, typeNode).kids[1])
    /\ GetText(f, N(f, typeNode).kids[1]) = "const"

IsImplicitlyNarrowedConstDeclarationAnyOperand(f, node) ==
    LET maybeDeclarationNode == N(f, N(f, node).parent).parent
    IN  /\ N(f, maybeDeclarationNode).kind = "VariableDeclarationList"
        /\ N(f, maybeDeclarationNode).a.isConst
IsImplicitlyNarrowedConstDeclaration(f, node) ==
    LET expression == AssertedExpression(f, node)
        maybeDeclarationNode == N(f, N(f, node).parent).parent
        isTemplateLiteralWithExpressions ==
            /\ N(f, expression).kind = "TemplateExpression"
            /\ Len(TemplateSpans(f, expression)) # 0
    IN  /\ N(f, maybeDeclarationNode).kind = "VariableDeclarationList"
        /\ N(f, maybeDeclarationNode).a.isConst
        /\ ~isTemplateLiteralWithExpressions

IsTypeUnchanged(o, uncast, cast) ==
    IF uncast = cast THEN TRUE
    ELSE IF /\ IsTypeFlagSet(uncast, {"Undefined"})
            /\ IsTypeFlagSet(cast, {"Undefined"})
            /\ o.exactOptionalPropertyTypes
    THEN LET notUndefined(part) == ~IsTypeFlagSet(part, {"Undefined"})
             uncastParts == Filter(UnionTypeParts(uncast), notUndefined)
             castParts   == Filter(UnionTypeParts(cast), notUndefined)
         IN  IF Len(uncastParts) # Len(castParts) THEN FALSE
             ELSE \A part \in Range(castParts) : part \in Range(uncastParts)
    ELSE FALSE

ContextuallyUnnecessary ==
    "This assertion is unnecessary since the receiver accepts the original type of the expression."
UnnecessaryAssertion ==
    "This assertion is unnecessary since it does not change the type of the expression."

\* getTokenBefore(node, sourceFile, condition), 0 for undefined.  Every
\* caller's condition is n => n.kind === kind: it is given as that kind.
\* The loop runs over the indices before the node's own and tests the
\* condition on the node itself.
GetTokenBefore(f, node, kind) ==
    LET children == N(f, N(f, node).parent).kids
    IN  IF IndexOf(children, node) - 1 >= 1 /\ N(f, node).kind = kind
        THEN node ELSE 0

\* getTokenAfter(node, sourceFile, condition), 0 for undefined
GetTokenAfter(f, node, kind) ==
    LET children == N(f, N(f, node).parent).kids
    IN  IF IndexOf(children, node) < Len(children) /\ N(f, node).kind = kind
        THEN node ELSE 0

\* what evaluating a fix gives: its text changes, or an exception
Edits(changes) == [throws |-> FALSE, edits |-> changes]
Threw == [throws |-> TRUE, edits |-> <<>>]

\* the fix of an unnecessary type assertion; nullThrows throws on undefined
TypeAssertionFix(f, node) ==
    IF IsTypeAssertionExpression(f, node)
    THEN LET openingAngleBracket ==
                 GetTokenBefore(f, AssertedTypeNode(f, node), "LessThanToken")
             closingAngleBracket ==
                 GetTokenAfter(f, AssertedTypeNode(f, node),
                               "GreaterThanToken")
         IN  IF openingAngleBracket = 0 \/ closingAngleBracket = 0 THEN Threw
             ELSE Edits(<<TextChange(N(f, openingAngleBracket).start,
                            N(f, closingAngleBracket).end
                              - N(f, openingAngleBracket).start, "")>>)
    ELSE LET asToken ==
                 GetTokenAfter(f, AssertedExpression(f, node), "AsKeyword")
         IN  IF asToken = 0 THEN Threw
             ELSE Edits(<<TextChange(N(f, asToken).pos,
                            N(f, node).end - N(f, asToken).pos, "")>>)

\* the fixes of the rule
AssertionFix(f, fix) ==
    LET node == fix.node
        expression == N(f, node).kids[1]
    IN  CASE fix.kind = "nonNullTail" ->
               Edits(<<TextChange(N(f, expression).end,
                         N(f, node).end - N(f, expression).end, "")>>)
          [] fix.kind = "nonNullLastChar" ->
               Edits(<<TextChange(N(f, node).end - 1, 1, "")>>)
          [] fix.kind = "typeAssertion" -> TypeAssertionFix(f, node)

\* whether the contextual type accepts every nullability class that the
\* flags of the operand's type hold
IsValidNullabilityNoVoid(type, contextualType) ==
    LET isValid(flag) ==
            IsTypeFlagSet(type, {flag}) => IsTypeFlagSet(contextualType, {flag})
    IN  isValid("Undefined") /\ isValid("Null")
IsValidNullability(type, contextualType) ==
    LET isValid(flag) ==
            IsTypeFlagSet(type, {flag}) => IsTypeFlagSet(contextualType, {flag})
    IN  isValid("Undefined") /\ isValid("Null") /\ isValid("Void")

\* the branch of the callback for a non-null assertion e!
NonNullVisit(f, o, node) ==
    LET parent == N(f, node).parent
        here(message, kind) ==
            WithFix(Report(message, N(f, node).start, N(f, node).end),
                    Fix(kind, node, ""))
        expression == N(f, node).kids[1]
        type == GetConstrainedTypeAtLocation(f, expression)
        contextualType == GetContextualType(f, node)
    IN  IF /\ IsBinaryExpression(f, parent)
           /\ N(f, OperatorToken(f, parent)).kind = "EqualsToken"
        THEN Outcome(IF Left(f, parent) = node
                     THEN <<here(ContextuallyUnnecessary, "nonNullTail")>>
                     ELSE <<>>, FALSE, FALSE)
        ELSE IF ~IsNullableType(type) /\ ~IsTypeFlagSet(type, {"Void"})
        THEN IF /\ IsIdentifier(f, expression)
                /\ IsPossiblyUsedBeforeAssigned(f, o, expression)
             THEN Outcome(<<>>, FALSE, FALSE)
             ELSE Outcome(<<here(UnnecessaryAssertion, "nonNullLastChar")>>,
                          TRUE, FALSE)
        ELSE IF /\ contextualType # NoType
                /\ IsValidNullability(type, contextualType)
        THEN Outcome(<<here(ContextuallyUnnecessary, "nonNullTail")>>,
                     TRUE, FALSE)
        ELSE Outcome(<<>>, TRUE, FALSE)

\* the branch of the callback for e as T and <T>e
TypeAssertionVisit(f, o, node) ==
    LET typeNode == AssertedTypeNode(f, node)
        castType == N(f, node).a.type
        uncastType == N(f, AssertedExpression(f, node)).a.type
        typeIsUnchanged == IsTypeUnchanged(o, uncastType, castType)
        wouldSameTypeBeInferred ==
            IF TypeIsLiteral(castType)
            THEN IsImplicitlyNarrowedConstDeclaration(f, node)
            ELSE ~IsConstAssertion(f, typeNode)
    IN  IF TypeToString(N(f, typeNode).a.type) \in o.typesToIgnore
        THEN Outcome(<<>>, FALSE, FALSE)
        ELSE Outcome(IF typeIsUnchanged /\ wouldSameTypeBeInferred
                     THEN <<WithFix(Report(UnnecessaryAssertion,
                                      N(f, node).start, N(f, node).end),
                                    Fix("typeAssertion", node, ""))>>
                     ELSE <<>>, TRUE, FALSE)

\* the callback cb of no-unnecessary-type-assertion
AssertionVisit(f, o, node) ==
    IF IsNonNullExpression(f, node) THEN NonNullVisit(f, o, node)
    ELSE IF IsAsExpression(f, node) \/ IsTypeAssertionExpression(f, node)
    THEN TypeAssertionVisit(f, o, node)
    ELSE Outcome(<<>>, TRUE, FALSE)

\* the assertions the rule is run on: the operand, the type node, and what
\* the checker says the operand's type and the assertion's type are
AssertionCase(op, tn, uncast, cast) ==
    [op |-> op, tn |-> tn, uncast |-> uncast, cast |-> cast]
AssertionCases ==
    {AssertionCase("str", "const", TLitFoo, TLitFoo),
     AssertionCase("str", "'foo'", TLitFoo, TLitFoo),
     AssertionCase("str", "string", TLitFoo, TString),
     AssertionCase("paren", "number", TNumber, TNumber),
     AssertionCase("tmpl", "const", TLitAB, TLitAB),
     AssertionCase("tmpl", "'ab'", TLitAB, TLitAB),
     AssertionCase("tmpl", "string", TString, TString),
     AssertionCase("true", "const", TTrue, TTrue),
     AssertionCase("array", "const", TArray, TTuple),
     AssertionCase("ident", "string", TString, TString),
     AssertionCase("ident", "'foo'", TLitFoo, TLitFoo),
     AssertionCase("ident", "undefined", TMissing, TUndefined)}
AssertionStyles == {"as", "angle"}
AssertionContexts == {"const", "let", "paren", "statement"}

\* const y = e as T;   let y = e as T;   const y = (e as T);   e as T;
AssertionFile(c, style, ctx) ==
    LET e(trivia) == AssertionTerm(style, trivia, c.op, c.uncast, c.tn, c.cast)
    IN  Parse(SourceFile(
          <<CASE ctx = "const" ->
                   VarStatement(FALSE, "const", "y", FALSE, <<>>, <<e(" ")>>)
              [] ctx = "let" ->
                   VarStatement(FALSE, "let", "y", FALSE, <<>>, <<e(" ")>>)
              [] ctx = "paren" ->
                   VarStatement(FALSE, "const", "y", FALSE, <<>>,
                                <<Parenthesized(" ", e(""))>>)
              [] ctx = "statement" -> ExprStatement(e("\n"))>>))

\* the non-null assertions the rule is run on
NonNullTypes ==
    {TString, TUndefined, TNull, TVoid, TAny, TStringOrUndefined,
     TStringOrNull}
ContextualTypes ==
    {NoType, TString, TUndefined, TNull, TVoid, TStringOrUndefined}
\* how the operand `a` is declared: not at all, let a: T;  let a: T = v;
\* let a!: T;  declare let a: T;  let a;
DeclarationKinds == {"none", "typed", "init", "definite", "declare", "untyped"}
\* where the assertion stands: let c = a!;  f(a!);  a! = v;  x = a!;  a! + v;
NonNullContexts == {"init", "arg", "assignLeft", "assignRight", "plus"}

\* the file <declaration of a> <use of e!>, where e is `a` (op = "ident") or
\* the call g() (op = "call"), of type t; T is t or (same = FALSE) unknown
NonNullFile(op, t, declKind, same, ctx, contextual) ==
    LET declared == <<AliasTerm(" ", "T", IF same THEN t ELSE TUnknown)>>
        declaration ==
            CASE declKind = "none" -> <<>>
              [] declKind = "typed" ->
                   <<VarStatement(FALSE, "let", "a", FALSE, declared, <<>>)>>
              [] declKind = "init" ->
                   <<VarStatement(FALSE, "let", "a", FALSE, declared,
                                  <<Ident(" ", "v", A0)>>)>>
              [] declKind = "definite" ->
                   <<VarStatement(FALSE, "let", "a", TRUE, declared, <<>>)>>
              [] declKind = "declare" ->
                   <<VarStatement(TRUE, "let", "a", FALSE, declared, <<>>)>>
              [] declKind = "untyped" ->
                   <<VarStatement(FALSE, "let", "a", FALSE, <<>>, <<>>)>>
        operand(trivia) ==
            IF op = "ident"
            THEN Ident(trivia, "a",
                       [A0 EXCEPT !.type = t,
                                  !.decl = IF declKind = "none" THEN "none"
                                           ELSE "found"])
            ELSE OperandTerm("call", trivia, t)
        nonNull(trivia) ==
            Node("NonNullExpression",
                 <<operand(trivia), Tok("ExclamationToken", "", "!")>>,
                 [A0 EXCEPT !.contextual = contextual])
        binary(left, kind, text, right) ==
            ExprStatement(Node("BinaryExpression",
                               <<left, PropTok(kind, " ", text), right>>, A0))
        use ==
            CASE ctx = "init" ->
                   VarStatement(FALSE, "let", "c", FALSE, <<>>, <<nonNull(" ")>>)
              [] ctx = "arg" ->
                   ExprStatement(Node("CallExpression",
                       <<Ident("\n", "f", A0), Tok("OpenParenToken", "", "("),
                         List(<<nonNull("")>>),
                         Tok("CloseParenToken", "", ")")>>, A0))
              [] ctx = "assignLeft" ->
                   binary(nonNull("\n"), "EqualsToken", "=", Ident(" ", "v", A0))
              [] ctx = "assignRight" ->
                   binary(Ident("\n", "x", A0), "EqualsToken", "=", nonNull(" "))
              [] ctx = "plus" ->
                   binary(nonNull("\n"), "PlusToken", "+", Ident(" ", "v", A0))
    IN  Parse(SourceFile(declaration \o <<use>>))

\* options.typesToIgnore and the compiler options the rule reads
AssertionOpts ==
    [typesToIgnore : {{}, {"string"}},
     strictNullChecks : BOOLEAN,
     exactOptionalPropertyTypes : BOOLEAN]

AssertionInit ==
    \E o \in AssertionOpts :
        \/ \E c \in AssertionCases, style \in AssertionStyles,
              ctx \in AssertionContexts :
                /\ o.strictNullChecks
                /\ Start("no-unnecessary-type-assertion", o,
                         AssertionFile(c, style, ctx))
        \/ \E op \in {"ident", "call"}, t \in NonNullTypes,
              declKind \in DeclarationKinds, same \in BOOLEAN,
              ctx \in NonNullContexts, contextual \in ContextualTypes :
                /\ o.typesToIgnore = {} /\ ~o.exactOptionalPropertyTypes
                /\ op = "call" => declKind = "none"
                /\ same \/ declKind \notin {"none", "untyped"}
                /\ contextual = NoType \/ ctx = "arg"
                /\ Start("no-unnecessary-type-assertion", o,
                         NonNullFile(op, t, declKind, same, ctx, contextual))

AssertionCallback ==
    /\ rule = "no-unnecessary-type-assertion"
    /\ status = "running"
    /\ todo # <<>>
    /\ Step(AssertionVisit(file, opts, Head(todo)))

\* the host evaluates the fix of a diagnostic once the rule has returned
AssertionEvalFix ==
    /\ rule = "no-unnecessary-type-assertion"
    /\ status = "done"
    /\ \E i \in 1..Len(diags) :
        /\ diags[i].fixState = "pending"
        /\ LET result == AssertionFix(file, diags[i].fix)
           IN  diags' = [diags EXCEPT
                           ![i].fixState = IF result.throws THEN "threw"
                                           ELSE "ok",
                           ![i].edits = result.edits]
    /\ UNCHANGED <<rule, opts, file, todo, visited, status>>

AssertionNext == AssertionCallback \/ Return \/ AssertionEvalFix

SpecAssertion == AssertionInit /\ [][AssertionNext]_vars

(***************************************************************************)
(* C2: when no-unnecessary-type-assertion reports a type assertion,        *)
(* evaluating its fix never throws and returns exactly one edit with empty *)
(* replacement text: for <T>e the span runs from the start of the `<`      *)
(* token to the end of the `>` token, for e as T from the full start of    *)
(* the `as` keyword to the end of the assertion.                           *)
(***************************************************************************)
IsAssertion(f, n) == IsAsExpression(f, n) \/ IsTypeAssertionExpression(f, n)

\* the edit that removes `<T>` from <T>e, ` as T` from e as T
RemovalOfAssertion(f, n) ==
    IF IsTypeAssertionExpression(f, n)
    THEN TextChange(N(f, N(f, n).kids[1]).start,
                    N(f, N(f, n).kids[3]).end - N(f, N(f, n).kids[1]).start, "")
    ELSE TextChange(N(f, N(f, n).kids[2]).pos,
                    N(f, n).end - N(f, N(f, n).kids[2]).pos, "")

C2_FixRemovesAssertion ==
    \A i \in 1..Len(diags) :
        (diags[i].fix.kind = "typeAssertion" /\ diags[i].fixState # "pending")
            => /\ diags[i].fixState = "ok"
               /\ diags[i].edits = <<RemovalOfAssertion(file, diags[i].fix.node)>>

(***************************************************************************)
(* C3: for a non-null assertion e! that is not an operand of a plain `=`   *)
(* assignment: (a) if the constrained type of e is neither nullable nor    *)
(* void and e is not an identifier possibly used before being assigned,    *)
(* exactly one diagnostic is reported on the assertion, with a fix that    *)
(* deletes its final character; (b) if the type of e is nullable and there *)
(* is no contextual type at that position, nothing is reported; (c) if e   *)
(* is an identifier whose declaration cannot be found, nothing is          *)
(* reported.  As amended, (c) holds when moreover the type of e is neither *)
(* nullable nor void.                                                      *)
(***************************************************************************)
NonNullAssertions(f) ==
    {n \in NodeIds(f) :
        /\ IsNonNullExpression(f, n)
        /\ ~ /\ N(f, N(f, n).parent).kind = "BinaryExpression"
             /\ GetText(f, N(f, N(f, n).parent).kids[2]) = "="}

ConstrainedType3(f, e) ==
    IF N(f, e).a.type = TParamA THEN TLitA ELSE N(f, e).a.type
Nullable3(f, e) ==
    \E part \in Range(UnionTypeParts(ConstrainedType3(f, e))) :
        part \in {TNull, TUndefined, TMissing}
IsVoid3(f, e) == ConstrainedType3(f, e) = TVoid

\* the declaration of e is `let e: T;` (no initializer, no `!`, no
\* `declare`) and T is the type e has where it is used
DeclaredUnassigned(f, e) ==
    \E d \in NodeIds(f) :
        /\ N(f, d).kind = "VariableDeclaration"
        /\ Len(N(f, d).kids) = 3
        /\ GetText(f, N(f, d).kids[1]) = GetText(f, e)
        /\ N(f, N(f, d).kids[2]).kind = "ColonToken"
        /\ N(f, N(f, d).kids[3]).a.type = ConstrainedType3(f, e)
        /\ Slice(f, N(f, N(f, N(f, d).parent).parent).start,
                 N(f, N(f, N(f, d).parent).parent).start + 7) # "declare"
DeclarationNotFound(f, e) == IsIdentifier(f, e) /\ N(f, e).a.decl = "none"
PossiblyUsedBeforeAssigned3(f, o, e) ==
    /\ IsIdentifier(f, e)
    /\ \/ DeclarationNotFound(f, e)
       \/ o.strictNullChecks /\ DeclaredUnassigned(f, e)

\* (a)
C3_Unnecessary(n) ==
    LET e == N(file, n).kids[1]
    IN  (/\ ~Nullable3(file, e) /\ ~IsVoid3(file, e)
         /\ ~PossiblyUsedBeforeAssigned3(file, opts, e))
        => /\ Cardinality(DiagsOn(file, n)) = 1
           /\ \A i \in DiagsOn(file, n) :
                /\ diags[i].fixState \in {"pending", "ok"}
                /\ diags[i].fixState = "ok" =>
                     diags[i].edits = <<TextChange(N(file, n).end - 1, 1, "")>>
\* (b)
C3_NoContext(n) ==
    (Nullable3(file, N(file, n).kids[1]) /\ N(file, n).a.contextual = NoType)
        => DiagsOn(file, n) = {}
\* (c) and (c) as amended
C3_NotFound(n) ==
    DeclarationNotFound(file, N(file, n).kids[1]) => DiagsOn(file, n) = {}
C3_NotFoundNonNullable(n) ==
    LET e == N(file, n).kids[1]
    IN  (DeclarationNotFound(file, e) /\ ~Nullable3(file, e) /\ ~IsVoid3(file, e))
            => DiagsOn(file, n) = {}

C3_Original ==
    status = "done" =>
        \A n \in NonNullAssertions(file) :
            C3_Unnecessary(n) /\ C3_NoContext(n) /\ C3_NotFound(n)

C3_NonNull ==
    status = "done" =>
        \A n \in NonNullAssertions(file) :
            C3_Unnecessary(n) /\ C3_NoContext(n) /\ C3_NotFoundNonNullable(n)

\* `a!` with a of type string, declared and initialised: reported, and the
\* fix evaluated
C3_Witness ==
    /\ status = "done"
    /\ \E n \in NonNullAssertions(file) :
          /\ IsIdentifier(file, N(file, n).kids[1])
          /\ ~DeclarationNotFound(file, N(file, n).kids[1])
          /\ ~Nullable3(file, N(file, n).kids[1])
          /\ \E i \in DiagsOn(file, n) : diags[i].fixState = "ok"

(***************************************************************************)
(* C9: a const assertion (e as const or <const>e) is never reported as an  *)
(* unnecessary type assertion, whatever the declaration it appears in.     *)
(* As amended: a const assertion is reported if and only if its type is a  *)
(* string, number or bigint literal type, identical to the type of its     *)
(* operand, it is the initializer of a `const` declaration, and its        *)
(* operand is not a template literal with interpolations.                  *)
(***************************************************************************)
ConstAssertions(f) ==
    {n \in NodeIds(f) :
        IsAssertion(f, n) /\ GetText(f, AssertedTypeNode(f, n)) = "const"}

\* the assertion is the initializer of a declaration of a `const` statement
InitializesConst(f, n) ==
    /\ N(f, N(f, n).parent).kind = "VariableDeclaration"
    /\ N(f, N(f, N(f, n).parent).parent).a.isConst
HasInterpolations(f, e) == N(f, e).kind = "TemplateExpression"
LiteralTypes9 == {TLitA, TLitB, TLitAB, TLitFoo, TLitEmpty, TLit0, TLit1,
                  TLit3, TLit5, TLit8}

C9_Original ==
    \A n \in ConstAssertions(file) : DiagsOn(file, n) = {}

C9_ConstAssertion ==
    status = "done" =>
        \A n \in ConstAssertions(file) :
            Cardinality(DiagsOn(file, n)) =
                IF /\ N(file, n).a.type \in LiteralTypes9
                   /\ N(file, n).a.type = N(file, AssertedExpression(file, n)).a.type
                   /\ InitializesConst(file, n)
                   /\ ~HasInterpolations(file, AssertedExpression(file, n))
                THEN 1 ELSE 0

\* const y = 'foo' as const; is reported, let y = 'foo' as const; is not
C9_Witness ==
    /\ status = "done"
    /\ \E n \in ConstAssertions(file) :
          DiagsOn(file, n) # {} /\ GetText(file, AssertedExpression(file, n)) = "'foo'"

(***************************************************************************)
(* C10: a type assertion whose asserted type is a literal type is reported *)
(* only when the asserted and original types are unchanged and the         *)
(* assertion initializes a non-const binding or its operand is a template  *)
(* literal with interpolations; one that initializes a `const` declaration *)
(* with a plain literal is not reported.  As amended: it is reported if    *)
(* and only if the two types are identical, the assertion is the           *)
(* initializer of a `const` declaration, its operand is not a template     *)
(* literal with interpolations, and the asserted type is not listed in     *)
(* typesToIgnore.                                                          *)
(***************************************************************************)
LiteralAssertions(f) ==
    {n \in NodeIds(f) : IsAssertion(f, n) /\ N(f, n).a.type \in LiteralTypes9}
TypeUnchanged10(f, n) == N(f, n).a.type = N(f, AssertedExpression(f, n)).a.type
PlainLiteral(f, e) == N(f, e).kind \in {"StringLiteral", "NumericLiteral"}

C10_Original ==
    status = "done" =>
        \A n \in LiteralAssertions(file) :
            /\ DiagsOn(file, n) # {} =>
                 /\ TypeUnchanged10(file, n)
                 /\ \/ ~InitializesConst(file, n)
                    \/ HasInterpolations(file, AssertedExpression(file, n))
            /\ (/\ InitializesConst(file, n)
                /\ PlainLiteral(file, AssertedExpression(file, n)))
                 => DiagsOn(file, n) = {}

C10_LiteralAssertion ==
    status = "done" =>
        \A n \in LiteralAssertions(file) :
            Cardinality(DiagsOn(file, n)) =
                IF /\ TypeUnchanged10(file, n)
                   /\ InitializesConst(file, n)
                   /\ ~HasInterpolations(file, AssertedExpression(file, n))
                   /\ N(file, AssertedTypeNode(file, n)).a.type.name
                        \notin opts.typesToIgnore
                THEN 1 ELSE 0

\* const y = 'foo' as 'foo'; is reported
C10_Witness ==
    /\ status = "done"
    /\ \E n \in LiteralAssertions(file) :
          /\ GetText(file, AssertedTypeNode(file, n)) = "'foo'"
          /\ PlainLiteral(file, AssertedExpression(file, n))
          /\ InitializesConst(file, n)
          /\ DiagsOn(file, n) # {}

(***************************************************************************)
(* Conditional and logical expressions, the input of                       *)
(* prefer-nullish-coalescing.                                              *)
(***************************************************************************)
OperatorKind(text) ==
    CASE text = "==" -> "EqualsEqualsToken"
      [] text = "!=" -> "ExclamationEqualsToken"
      [] text = "===" -> "EqualsEqualsEqualsToken"
      [] text = "!==" -> "ExclamationEqualsEqualsToken"
      [] text = "||" -> "BarBarToken"
      [] text = "&&" -> "AmpersandAmpersandToken"
      [] text = "??" -> "QuestionQuestionToken"
      [] text = "<" -> "LessThanToken"
      [] text = ">" -> "GreaterThanToken"
      [] text = "<=" -> "LessThanEqualsToken"
      [] text = ">=" -> "GreaterThanEqualsToken"
      [] text = "+" -> "PlusToken"
      [] text = "=" -> "EqualsToken"
      [] text = "," -> "CommaToken"
      [] text = "||=" -> "BarBarEqualsToken"
      [] text = "&&=" -> "AmpersandAmpersandEqualsToken"
      [] text = "??=" -> "QuestionQuestionEqualsToken"

\* left <op> right, of type t
Binary(left, op, right, t) ==
    Node("BinaryExpression",
         <<left, PropTok(OperatorKind(op), " ", op), right>>, WithType(t))

\* the words a test is made of: an identifier of type t, null, undefined
\* (an identifier, as everywhere in an expression)
Word(trivia, w, t) ==
    CASE w = "null" -> Leaf("NullKeyword", trivia, w, WithType(TNull))
      [] w = "undefined" -> Ident(trivia, w, WithType(TUndefined))
      [] OTHER -> Ident(trivia, w, WithType(t))

\* condition ? whenTrue : whenFalse
Conditional(condition, whenTrue, whenFalse) ==
    Node("ConditionalExpression",
         <<condition, PropTok("QuestionToken", " ", "?"), whenTrue,
           PropTok("ColonToken", " ", ":"), whenFalse>>, A0)

\* if (expression) {}
IfTerm(expression) ==
    Node("IfStatement",
         <<Tok("IfKeyword", "\n", "if"), Tok("OpenParenToken", " ", "("),
           expression, Tok("CloseParenToken", "", ")"),
           Node("Block", <<Tok("OpenBraceToken", " ", "{"), List(<<>>),
                           Tok("CloseBraceToken", "", "}")>>, A0)>>, A0)

\* the fields of the nodes
Condition(f, n) == N(f, n).kids[1]
WhenTrue(f, n) == N(f, n).kids[3]
WhenFalse(f, n) == N(f, n).kids[5]
IsConditionalExpression(f, n) == N(f, n).kind = "ConditionalExpression"
OperatorOf(f, n) == N(f, OperatorToken(f, n)).kind
\* the condition of a conditional expression or for statement, the
\* expression of an if, while or do statement; 0 if the node has none
TestOf(f, n) ==
    CASE N(f, n).kind \in {"IfStatement", "WhileStatement"} -> N(f, n).kids[3]
      [] N(f, n).kind = "DoStatement" -> N(f, n).kids[5]
      [] N(f, n).kind = "ConditionalExpression" -> N(f, n).kids[1]
      [] N(f, n).kind = "ForStatement" ->
            LET c == ChildAfterKind(f, n, "SemicolonToken")
            IN  IF N(f, c).kind = "SemicolonToken" THEN 0 ELSE c
      [] OTHER -> 0

(***************************************************************************)
(* Rule prefer-nullish-coalescing.  The back quotes of its messages are    *)
(* written as ' (a string of the model cannot hold a back quote).          *)
(***************************************************************************)
RequiresStrictNullChecks ==
    "This rule requires the 'strictNullChecks' compiler option to be turned on to function correctly."
PreferNullishOverTernary ==
    "Prefer using nullish coalescing operator ('??') instead of a ternary expression, as it is simpler to read."
PreferNullishOverOr ==
    "Prefer using nullish coalescing operator ('??') instead of a logical or ('||'), as it is a safer operator."

\* getTypeFlags(type): the raw flags of the type
GetTypeFlags(type) == type.flags

IsLogicalOrExpression(f, n) ==
    n # 0 /\ IsBinaryExpression(f, n) /\ OperatorOf(f, n) = "BarBarToken"
IsLogicalAndExpression(f, n) ==
    n # 0 /\ IsBinaryExpression(f, n)
          /\ OperatorOf(f, n) = "AmpersandAmpersandToken"
IsLogicalExpression(f, n) ==
    IsLogicalOrExpression(f, n) \/ IsLogicalAndExpression(f, n)

\* isUndefinedIdentifier(i): i.kind === 157 (UndefinedKeyword)
IsUndefinedIdentifierByName(f, i) ==
    IsIdentifier(f, i) /\ GetText(f, i) = "undefined"
IsUndefinedIdentifier(f, i) == N(f, i).kind = "UndefinedKeyword"

\* tsutils.isNullLiteral(node)
IsNullLiteral(f, n) == N(f, n).kind = "NullKeyword"

RECURSIVE IsNodeEqual(_, _, _)
IsNodeEqual(f, a, b) ==
    IF N(f, a).kind # N(f, b).kind THEN FALSE
    ELSE IF N(f, a).kind = "ThisKeyword" THEN TRUE
    ELSE IF N(f, a).kind \in {"StringLiteral", "Identifier"}
    THEN GetText(f, a) = GetText(f, b)
    ELSE IF N(f, a).kind = "PropertyAccessExpression"
    THEN /\ IsNodeEqual(f, N(f, a).kids[3], N(f, b).kids[3])
         /\ IsNodeEqual(f, N(f, a).kids[1], N(f, b).kids[1])
    ELSE FALSE

\* the operator of the test of a ternary and the nodes inside the test;
\* operator is "" when the test is not a (pair of) comparison(s)
TernaryTest(f, node) ==
    LET condition == Condition(f, node)
        kind  == OperatorOf(f, condition)
        left  == Left(f, condition)
        right == Right(f, condition)
        lk == OperatorOf(f, left)
        rk == OperatorOf(f, right)
        pair(strict, loose) ==
            IF lk = strict /\ rk = strict THEN strict
            ELSE IF \/ (lk = strict \/ rk = strict) /\ (lk = loose \/ rk = loose)
                    \/ lk = loose /\ rk = loose
            THEN loose ELSE ""
    IN  IF ~IsBinaryExpression(f, condition)
        THEN [operator |-> "", nodes |-> <<>>]
        ELSE IF kind \in {"EqualsEqualsToken", "ExclamationEqualsToken",
                          "EqualsEqualsEqualsToken",
                          "ExclamationEqualsEqualsToken"}
        THEN [operator |-> kind, nodes |-> <<left, right>>]
        ELSE IF /\ IsLogicalExpression(f, condition)
                /\ IsBinaryExpression(f, left) /\ IsBinaryExpression(f, right)
        THEN [operator |->
                 IF kind = "BarBarToken"
                 THEN pair("EqualsEqualsEqualsToken", "EqualsEqualsToken")
                 ELSE IF kind = "AmpersandAmpersandToken"
                 THEN pair("ExclamationEqualsEqualsToken",
                           "ExclamationEqualsToken")
                 ELSE "",
              nodes |-> <<Left(f, left), Right(f, left),
                          Left(f, right), Right(f, right)>>]
        ELSE [operator |-> "", nodes |-> <<left, right>>]

\* the loop over the nodes inside the test: what it has found when it ends,
\* or ok = FALSE when it returns from the callback
RECURSIVE TestNodesLoop(_, _, _, _, _)
TestNodesLoop(f, node, operator, testNodes, found) ==
    IF Len(testNodes) = 0 THEN found
    ELSE LET testNode == Head(testNodes)
             rest == Tail(testNodes)
         IN  IF IsNullLiteral(f, testNode)
             THEN TestNodesLoop(f, node, operator, rest,
                                [found EXCEPT !.hasNullCheck = TRUE])
             ELSE IF IsUndefinedIdentifier(f, testNode)
             THEN TestNodesLoop(f, node, operator, rest,
                                [found EXCEPT !.hasUndefinedCheck = TRUE])
             ELSE IF /\ operator \in {"ExclamationEqualsEqualsToken",
                                      "ExclamationEqualsToken"}
                     /\ IsNodeEqual(f, testNode, WhenTrue(f, node))
             THEN TestNodesLoop(f, node, operator, rest,
                                [found EXCEPT !.identifier = testNode])
             ELSE IF /\ operator \in {"EqualsEqualsEqualsToken",
                                      "EqualsEqualsToken"}
                     /\ IsNodeEqual(f, testNode, WhenFalse(f, node))
             THEN TestNodesLoop(f, node, operator, rest,
                                [found EXCEPT !.identifier = testNode])
             ELSE [found EXCEPT !.ok = FALSE]

IsFixable(f, operator, found) ==
    LET flags == GetTypeFlags(N(f, found.identifier).a.type)
        hasNullType == "Null" \in flags
        hasUndefinedType == "Undefined" \in flags
    IN  IF found.hasUndefinedCheck = found.hasNullCheck
        THEN found.hasUndefinedCheck
        ELSE IF operator \in {"EqualsEqualsToken", "ExclamationEqualsToken"}
        THEN TRUE
        ELSE IF flags \cap {"Any", "Unknown"} # {} THEN FALSE
        ELSE IF found.hasUndefinedCheck /\ ~hasNullType THEN TRUE
        ELSE found.hasNullCheck /\ ~hasUndefinedType

\* the branch of the callback for a conditional expression
TernaryVisit(f, o, node) ==
    LET test  == TernaryTest(f, node)
        found == TestNodesLoop(f, node, test.operator, test.nodes,
                     [ok |-> TRUE, identifier |-> 0,
                      hasUndefinedCheck |-> FALSE, hasNullCheck |-> FALSE])
    IN  IF o.ignoreTernaryTests THEN Outcome(<<>>, FALSE, FALSE)
        ELSE IF test.operator = "" THEN Outcome(<<>>, FALSE, FALSE)
        ELSE IF ~found.ok \/ found.identifier = 0
        THEN Outcome(<<>>, FALSE, FALSE)
        ELSE Outcome(IF IsFixable(f, test.operator, found)
                     THEN <<WithFix(Report(PreferNullishOverTernary,
                                      N(f, node).start, N(f, node).end),
                                    Fix("ternary", node, test.operator))>>
                     ELSE <<>>, TRUE, FALSE)

\* isConditionalTest(node): the loop over the ancestors, `parents` being
\* the nodes passed so far
RECURSIVE ConditionalTestLoop(_, _, _)
ConditionalTestLoop(f, current, parents) ==
    IF current = 0 THEN FALSE
    ELSE LET kind == N(f, current).kind
             seen == parents \cup {current}
         IN  IF /\ kind \in {"ConditionalExpression", "ForStatement"}
                /\ TestOf(f, current) \in seen
             THEN TRUE
             ELSE IF /\ kind \in {"DoStatement", "IfStatement", "WhileStatement"}
                     /\ TestOf(f, current) \in seen
             THEN TRUE
             ELSE IF kind \in {"ArrowFunction", "FunctionExpression"} THEN FALSE
             ELSE ConditionalTestLoop(f, N(f, current).parent, seen)
IsConditionalTest(f, node) ==
    ConditionalTestLoop(f, N(f, node).parent, {node})

\* isMixedLogicalExpression(node): the loop over the queue, which grows
\* while it is iterated
RECURSIVE MixedLogicalLoop(_, _, _, _)
MixedLogicalLoop(f, queue, i, seen) ==
    IF i > Len(queue) THEN FALSE
    ELSE LET current == queue[i]
         IN  IF current \in seen THEN MixedLogicalLoop(f, queue, i + 1, seen)
             ELSE IF IsLogicalAndExpression(f, current) THEN TRUE
             ELSE IF IsLogicalOrExpression(f, current)
             THEN MixedLogicalLoop(f,
                      queue \o <<N(f, current).parent, Left(f, current),
                                 Right(f, current)>>,
                      i + 1, seen \cup {current})
             ELSE MixedLogicalLoop(f, queue, i + 1, seen \cup {current})
IsMixedLogicalExpression(f, node) ==
    MixedLogicalLoop(f, <<N(f, node).parent, Left(f, node), Right(f, node)>>,
                     1, {})

\* the type flags that ignorePrimitives lets the rule ignore
IgnorableFlags(o) ==
    {CASE p = "bigint" -> "BigInt"
       [] p = "boolean" -> "BooleanLiteral"
       [] p = "number" -> "Number"
       [] p = "string" -> "String" : p \in o.ignorePrimitives}

\* the branch of the callback for a || b
LogicalOrVisit(f, o, node) ==
    LET type == N(f, Left(f, node)).a.type
        barBarOperator == GetTokenAfter(f, Left(f, node), OperatorOf(f, node))
    IN  IF ~IsTypeFlagSet(type, {"Null", "Undefined"})
        THEN Outcome(<<>>, FALSE, FALSE)
        ELSE IF o.ignoreConditionalTests /\ IsConditionalTest(f, node)
        THEN Outcome(<<>>, FALSE, FALSE)
        ELSE IF o.ignoreMixedLogicalExpressions
                /\ IsMixedLogicalExpression(f, node)
        THEN Outcome(<<>>, FALSE, FALSE)
        ELSE IF /\ type.flags # {"Null"}
                /\ type.flags # {"Undefined"}
                /\ \E t \in Range(type.types) :
                      IsTypeFlagSet(t, IgnorableFlags(o))
        THEN Outcome(<<>>, FALSE, FALSE)
        ELSE IF barBarOperator = 0 THEN Outcome(<<>>, FALSE, TRUE)
        ELSE Outcome(<<WithFix(Report(PreferNullishOverOr,
                                 N(f, barBarOperator).start,
                                 N(f, barBarOperator).end),
                               Fix("logicalOr", node, ""))>>, TRUE, FALSE)

\* the callback cb of prefer-nullish-coalescing
NullishVisit(f, o, node) ==
    IF IsConditionalExpression(f, node) THEN TernaryVisit(f, o, node)
    ELSE IF IsLogicalOrExpression(f, node) THEN LogicalOrVisit(f, o, node)
    ELSE Outcome(<<>>, TRUE, FALSE)

\* the fixes of the rule
NullishFix(f, fix) ==
    LET node == fix.node
    IN  IF fix.kind = "ternary"
        THEN LET swap  == fix.arg \in {"EqualsEqualsEqualsToken",
                                       "EqualsEqualsToken"}
                 left  == IF swap THEN WhenFalse(f, node) ELSE WhenTrue(f, node)
                 right == IF swap THEN WhenTrue(f, node) ELSE WhenFalse(f, node)
             IN  Edits(<<TextChange(N(f, node).start,
                            N(f, node).end - N(f, node).start,
                            GetText(f, left) \o " ?? " \o GetText(f, right))>>)
        ELSE LET barBarOperator ==
                     GetTokenAfter(f, Left(f, node), OperatorOf(f, node))
                 left == Left(f, node)
                 open ==
                     IF /\ IsLogicalExpression(f, left)
                        /\ ~IsLogicalOrExpression(f, Left(f, left))
                     THEN TextChange(N(f, Right(f, left)).start, 0, "(")
                     ELSE TextChange(N(f, left).start, 0, "(")
             IN  Edits((IF IsLogicalOrExpression(f, N(f, node).parent)
                        THEN <<open,
                               TextChange(N(f, Right(f, node)).end, 0, ")")>>
                        ELSE <<>>)
                       \o <<TextChange(N(f, barBarOperator).start,
                                       N(f, barBarOperator).end
                                         - N(f, barBarOperator).start, "??")>>)

\* the tests of the ternaries the rule is run on: a <op> x (or x <op> a),
\* a <op1> x1 <log> a <op2> x2, w1 <op> w2 <log> w3 <op> w4, or just a
EqualityOperators == {"==", "!=", "===", "!=="}
TestWords == {"null", "undefined", "c"}
TernaryTests ==
    [kind : {"simple"}, op : EqualityOperators, x : TestWords,
     swapped : BOOLEAN]
    \cup [kind : {"logical"}, log : {"||", "&&"}, op1 : EqualityOperators,
          x1 : TestWords, op2 : EqualityOperators, x2 : TestWords]
    \cup [kind : {"pairs"}, log : {"||", "&&"}, op : {"===", "!=="},
          w : [1..4 -> {"a", "null"}]]
    \cup [kind : {"plain"}]

TestTerm(c, t) ==
    CASE c.kind = "simple" ->
           IF c.swapped
           THEN Binary(Word("\n", c.x, t), c.op, Word(" ", "a", t), A0.type)
           ELSE Binary(Word("\n", "a", t), c.op, Word(" ", c.x, t), A0.type)
      [] c.kind = "logical" ->
           Binary(Binary(Word("\n", "a", t), c.op1, Word(" ", c.x1, t), A0.type),
                  c.log,
                  Binary(Word(" ", "a", t), c.op2, Word(" ", c.x2, t), A0.type),
                  A0.type)
      [] c.kind = "pairs" ->
           Binary(Binary(Word("\n", c.w[1], t), c.op, Word(" ", c.w[2], t),
                         A0.type),
                  c.log,
                  Binary(Word(" ", c.w[3], t), c.op, Word(" ", c.w[4], t),
                         A0.type),
                  A0.type)
      [] c.kind = "plain" -> Word("\n", "a", t)

\* <test> ? a : b;  or (aFirst = FALSE)  <test> ? b : a;
TernaryFile(c, t, aFirst) ==
    Parse(SourceFile(<<ExprStatement(
        Conditional(TestTerm(c, t),
                    Word(" ", IF aFirst THEN "a" ELSE "b", t),
                    Word(" ", IF aFirst THEN "b" ELSE "a", t)))>>))

\* where a || b stands:  a || b;  if (a || b) {}  a || b && c;  c && a || b;
\* a || b || c;  a || b ? x : y;
LogicalOrContexts ==
    {"statement", "if", "andRight", "andLeft", "chain", "ternary"}

\* t is the type of the left operand of every || of the file
LogicalOrFile(ctx, t) ==
    LET w(trivia, name) == Word(trivia, name, TString)
        or(trivia) == Binary(Word(trivia, "a", t), "||", w(" ", "b"), TString)
    IN  Parse(SourceFile(
          <<CASE ctx = "statement" -> ExprStatement(or("\n"))
              [] ctx = "if" -> IfTerm(or(""))
              [] ctx = "andRight" ->
                   ExprStatement(Binary(Word("\n", "a", t), "||",
                       Binary(w(" ", "b"), "&&", w(" ", "c"), TString),
                       TString))
              [] ctx = "andLeft" ->
                   ExprStatement(Binary(
                       Binary(w("\n", "c"), "&&", Word(" ", "a", t), t),
                       "||", w(" ", "b"), TString))
              [] ctx = "chain" ->
                   ExprStatement(Binary(
                       Binary(Word("\n", "a", t), "||", Word(" ", "b", t), t),
                       "||", w(" ", "c"), TString))
              [] ctx = "ternary" ->
                   ExprStatement(Conditional(or("\n"), w(" ", "x"),
                                             w(" ", "y")))>>))

NullishDefaults ==
    [allowRuleToRunWithoutStrictNullChecksIKnowWhatIAmDoing |-> FALSE,
     ignoreConditionalTests |-> FALSE,
     ignoreTernaryTests |-> FALSE,
     ignoreMixedLogicalExpressions |-> FALSE,
     ignorePrimitives |-> {},
     strictNullChecks |-> TRUE]

\* the rule is created with its options on a file; it has not run yet
Create(r, o, f) ==
    /\ rule = r
    /\ opts = o
    /\ file = f
    /\ todo = <<>>
    /\ visited = <<>>
    /\ diags = <<>>
    /\ status = "created"

NullishInit ==
    \/ \E c \in TernaryTests,
          t \in {TStringOrNull, TStringOrNullish, TString, TAny, TNull},
          aFirst \in BOOLEAN, ignore \in BOOLEAN :
            /\ ignore => c.kind = "simple"
            /\ Create("prefer-nullish-coalescing",
                      [NullishDefaults EXCEPT !.ignoreTernaryTests = ignore],
                      TernaryFile(c, t, aFirst))
    \/ \E ctx \in LogicalOrContexts,
          t \in {TNull, TUndefined, TStringOrNull, TString},
          tests \in BOOLEAN, mixed \in BOOLEAN,
          primitives \in {{}, {"string"}}, strict \in BOOLEAN,
          allow \in BOOLEAN :
            /\ strict \/ (~tests /\ ~mixed /\ primitives = {})
            /\ Create("prefer-nullish-coalescing",
                      [NullishDefaults EXCEPT
                          !.ignoreConditionalTests = tests,
                          !.ignoreMixedLogicalExpressions = mixed,
                          !.ignorePrimitives = primitives,
                          !.strictNullChecks = strict,
                          !.allowRuleToRunWithoutStrictNullChecksIKnowWhatIAmDoing
                              = allow],
                      LogicalOrFile(ctx, t))

\* the rule starts: it checks the compiler options and begins the traversal
NullishBegin ==
    /\ rule = "prefer-nullish-coalescing"
    /\ status = "created"
    /\ diags' =
         IF /\ ~opts.strictNullChecks
            /\ ~opts.allowRuleToRunWithoutStrictNullChecksIKnowWhatIAmDoing
         THEN <<Report(RequiresStrictNullChecks, 0, 0)>> ELSE <<>>
    /\ todo' = ForEachChild(file, 1)
    /\ status' = "running"
    /\ UNCHANGED <<rule, opts, file, visited>>

NullishCallback ==
    /\ rule = "prefer-nullish-coalescing"
    /\ status = "running"
    /\ todo # <<>>
    /\ Step(NullishVisit(file, opts, Head(todo)))

\* the host evaluates the fix of a diagnostic once the rule has returned
NullishEvalFix ==
    /\ rule = "prefer-nullish-coalescing"
    /\ status = "done"
    /\ \E i \in 1..Len(diags) :
        /\ diags[i].fixState = "pending"
        /\ LET result == NullishFix(file, diags[i].fix)
           IN  diags' = [diags EXCEPT
                           ![i].fixState = IF result.throws THEN "threw"
                                           ELSE "ok",
                           ![i].edits = result.edits]
    /\ UNCHANGED <<rule, opts, file, todo, visited, status>>

NullishNext == NullishBegin \/ NullishCallback \/ Return \/ NullishEvalFix

SpecNullish == NullishInit /\ [][NullishNext]_vars

(***************************************************************************)
(* C4: prefer-nullish-coalescing reports the ternary                       *)
(* `a === null || a === undefined ? b : a` (and the mirrored               *)
(* `a !== null && a !== undefined ? a : b`), and its fix replaces the      *)
(* whole ternary with the text `a ?? b`.                                   *)
(***************************************************************************)
NullishTernaries ==
    {"a === null || a === undefined ? b : a",
     "a !== null && a !== undefined ? a : b"}

C4_Ternary ==
    (status = "done" /\ rule = "prefer-nullish-coalescing"
        /\ ~opts.ignoreTernaryTests) =>
        \A n \in NodeIds(file) :
            (IsConditionalExpression(file, n)
                /\ GetText(file, n) \in NullishTernaries) =>
                /\ Cardinality(DiagsOn(file, n)) = 1
                /\ \A i \in DiagsOn(file, n) :
                     /\ diags[i].fixState \in {"pending", "ok"}
                     /\ diags[i].fixState = "ok" =>
                          diags[i].edits =
                            <<TextChange(N(file, n).start,
                                         N(file, n).end - N(file, n).start,
                                         "a ?? b")>>

(***************************************************************************)
(* C5: for every `a || b` whose left operand's type can be null or         *)
(* undefined and is not excluded by ignorePrimitives,                      *)
(* ignoreConditionalTests or ignoreMixedLogicalExpressions, the rule       *)
(* reports one diagnostic spanning exactly the `||` token, with a fix that *)
(* replaces that token by `??`, and the rule invocation completes without  *)
(* throwing.                                                               *)
(***************************************************************************)
CanBeNullish(type) ==
    \E part \in Range(UnionTypeParts(type)) : part \in {TNull, TUndefined}

\* the `a || b` that the options do not exclude
LogicalOrsToReport(f, o) ==
    {n \in NodeIds(f) :
        /\ N(f, n).kind = "BinaryExpression"
        /\ GetText(f, N(f, n).kids[2]) = "||"
        /\ CanBeNullish(N(f, N(f, n).kids[1]).a.type)
        /\ ~ \E part \in Range(UnionTypeParts(N(f, N(f, n).kids[1]).a.type)) :
                IsTypeFlagSet(part, IgnorableFlags(o))
        /\ ~(o.ignoreConditionalTests /\ IsConditionalTest(f, n))
        /\ ~(o.ignoreMixedLogicalExpressions /\ IsMixedLogicalExpression(f, n))}

C5_LogicalOr ==
    (rule = "prefer-nullish-coalescing" /\ status \in {"done", "thrown"}) =>
        /\ status = "done"
        /\ \A n \in LogicalOrsToReport(file, opts) :
             LET token == N(file, n).kids[2]
             IN  /\ Cardinality(DiagsOn(file, token)) = 1
                 /\ \A i \in DiagsOn(file, token) :
                      /\ diags[i].fixState \in {"pending", "ok"}
                      /\ diags[i].fixState = "ok" =>
                           \E j \in 1..Len(diags[i].edits) :
                              diags[i].edits[j] =
                                TextChange(N(file, token).start, 2, "??")

(***************************************************************************)
(* Rule no-unnecessary-condition: what it asks of types.  The back quotes  *)
(* of its messages are written as '.                                       *)
(***************************************************************************)
TBoolean == [name |-> "boolean", flags |-> {"Boolean", "Union"},
             types |-> <<TFalse, TTrue>>, truthy |-> FALSE]
\* { p?: string }, Record<string, string>, () => string, () => undefined,
\* () => true, () => void
TObjectQ  == Atom("{p?}", {"Object"}, FALSE)
TRecord   == Atom("Record<string, string>", {"Object"}, FALSE)
TFunction == Atom("() => string", {"Object"}, FALSE)
TFunctionQ == Atom("() => undefined", {"Object"}, FALSE)
TFunctionT == Atom("() => true", {"Object"}, FALSE)
TFunctionV == Atom("() => void", {"Object"}, FALSE)
TObjectOrUndefined == UnionOf(<<TObject, TUndefined>>)
TLitP == Atom("'p'", {"StringLiteral"}, TRUE)
TLit1n == Atom("1n", {"BigIntLiteral"}, TRUE)
TObjectOrObjectQ == UnionOf(<<TObject, TObjectQ>>)

\* getTypeOfPropertyOfName(checker, type, name), NoType if there is none
TypeOfPropertyOfName(type, name) ==
    IF type = TObject /\ name = "p" THEN TString
    ELSE IF type = TObjectQ /\ name = "p" THEN TStringOrUndefined
    ELSE IF type = TTuple /\ name = "0" THEN TLit1
    ELSE NoType
\* objectType.getProperty(name) exists and is optional
IsOptionalProperty(type, name) == type = TObjectQ /\ name = "p"
\* the names of the key types of checker.getIndexInfosOfType(type)
IndexKeyTypeNames(type) == IF type = TRecord THEN {"string"} ELSE {}
\* the return types of the call signatures of a type
ReturnTypes(type) ==
    IF type = TFunction THEN <<TString>>
    ELSE IF type = TFunctionQ THEN <<TUndefined>>
    ELSE IF type = TFunctionT THEN <<TTrue>>
    ELSE IF type = TFunctionV THEN <<TVoid>>
    ELSE <<>>
\* String(type.value) of a string or number literal type
ValueToString(type) ==
    IF "StringLiteral" \in type.flags
    THEN SubSeq(type.name, 2, Len(type.name) - 1) ELSE type.name
\* checker.isArrayType and checker.isTupleType
IsArrayType(type) == type = TArray
IsTupleType(type) == type = TTuple

\* isTypeFlagSet, isTypeAnyType, isTypeUnknownType and getTypeName of
\* ../type-utils
TypeHasFlag(type, flags) == GetTypeFlags(type) \cap flags # {}
IsTypeAnyType(type) == TypeHasFlag(type, {"Any"})
IsTypeUnknownType(type) == TypeHasFlag(type, {"Unknown"})
GetTypeName(type) == TypeToString(type)

\* ts.TypeFlags.PossiblyFalsy (117724) and ts.TypeFlags.TypeVariable
PossiblyFalsyFlags ==
    {"String", "Number", "BigInt", "Boolean", "StringLiteral", "NumberLiteral",
     "BigIntLiteral", "BooleanLiteral", "Void", "Undefined", "Null"}
TypeVariableFlags == {"TypeParameter", "IndexedAccess"}

\* tsutils.isTrueLiteralType, isFalseLiteralType, isBooleanLiteralType
IsTrueLiteralType(type) == type = TTrue
IsFalseLiteralType(type) == type = TFalse
IsBooleanLiteralType(type) == IsTypeFlagSet(type, {"BooleanLiteral"})

\* tsutils.isFalsyType
IsFalsyType(type) ==
    IF IsTypeFlagSet(type, {"Undefined", "Null", "Void"}) THEN TRUE
    ELSE IF TypeIsLiteral(type) THEN ~type.truthy
    ELSE IsFalseLiteralType(type)

IsTruthyLiteral(type) ==
    IsTrueLiteralType(type) \/ (TypeIsLiteral(type) /\ type.truthy)

\* the union parts of a type, each split into its intersection parts
FlatParts(type) ==
    Concat([i \in 1..Len(UnionTypeParts(type)) |->
              IntersectionTypeParts(UnionTypeParts(type)[i])])

IsPossiblyFalsy(type) ==
    \E t \in Range(FlatParts(type)) :
        ~IsTruthyLiteral(t) /\ TypeHasFlag(t, PossiblyFalsyFlags)

IsPossiblyTruthy(type) ==
    \E part \in Range(UnionTypeParts(type)) :
        \A t \in Range(IntersectionTypeParts(part)) : ~IsFalsyType(t)

IsNullishType(type) == TypeHasFlag(type, {"Undefined", "Null"})
IsPossiblyNullish(type) ==
    \E part \in Range(UnionTypeParts(type)) : IsNullishType(part)
IsAlwaysNullish(type) ==
    \A part \in Range(UnionTypeParts(type)) : IsNullishType(part)

IsLiteralNoNull(type) ==
    \/ IsBooleanLiteralType(type)
    \/ type.flags = {"Undefined"}
    \/ type.flags = {"Void"}
    \/ TypeIsLiteral(type)
IsLiteral(type) ==
    \/ IsBooleanLiteralType(type)
    \/ type.flags = {"Undefined"}
    \/ type.flags = {"Null"}
    \/ type.flags = {"Void"}
    \/ TypeIsLiteral(type)

(***************************************************************************)
(* The nodes no-unnecessary-condition reads.                               *)
(***************************************************************************)
\* node.expression of an access, a call or a non-null assertion
ExpressionOf(f, n) == N(f, n).kids[1]
QuestionDotToken(f, n) == ChildOfKind(f, n, "QuestionDotToken")
\* node.name of a property access
NameOf(f, n) == N(f, n).kids[Len(N(f, n).kids)]
ArgumentExpression(f, n) == ChildAfterKind(f, n, "OpenBracketToken")
Arguments(f, n) == N(f, ChildAfterKind(f, n, "OpenParenToken")).kids
IsPropertyAccessExpression(f, n) == N(f, n).kind = "PropertyAccessExpression"
IsElementAccessExpression(f, n) == N(f, n).kind = "ElementAccessExpression"
IsCallExpression(f, n) == N(f, n).kind = "CallExpression"
\* the operand of a prefix unary expression, and whether it is !operand
Operand(f, n) == N(f, n).kids[2]
IsNegation(f, n) ==
    /\ N(f, n).kind = "PrefixUnaryExpression"
    /\ N(f, N(f, n).kids[1]).kind = "ExclamationToken"
\* NodeFlags.OptionalChain: the node has a `?.` or continues such a chain
RECURSIVE IsOptionalChain(_, _)
IsOptionalChain(f, n) ==
    /\ N(f, n).kind \in {"PropertyAccessExpression", "ElementAccessExpression",
                         "CallExpression"}
    /\ \/ QuestionDotToken(f, n) # 0
       \/ IsOptionalChain(f, ExpressionOf(f, n))

NodeIsArrayType(f, node) ==
    \E part \in Range(UnionTypeParts(GetConstrainedTypeAtLocation(f, node))) :
        IsArrayType(part)
NodeIsTupleType(f, node) ==
    \E part \in Range(UnionTypeParts(GetConstrainedTypeAtLocation(f, node))) :
        IsTupleType(part)

IsArrayIndexExpression(f, node) ==
    /\ IsElementAccessExpression(f, node)
    /\ \/ NodeIsArrayType(f, ArgumentExpression(f, node))
       \/ /\ NodeIsTupleType(f, ArgumentExpression(f, node))
          /\ N(f, ArgumentExpression(f, node)).kind = "StringLiteral"

RECURSIVE IsNullablePropertyType(_, _)
IsNullablePropertyType(objType, propertyType) ==
    IF "Union" \in propertyType.flags
    THEN \E type \in Range(propertyType.types) :
            IsNullablePropertyType(objType, type)
    ELSE IF /\ propertyType.flags \cap {"NumberLiteral", "StringLiteral"} # {}
            /\ TypeOfPropertyOfName(objType, ValueToString(propertyType))
                 # NoType
    THEN IsNullableType(TypeOfPropertyOfName(objType,
                                             ValueToString(propertyType)))
    ELSE GetTypeName(propertyType) \in IndexKeyTypeNames(objType)

IsNullableMemberExpression(f, node) ==
    LET objectType == N(f, ExpressionOf(f, node)).a.type
    IN  IF IsElementAccessExpression(f, node)
        THEN IsNullablePropertyType(objectType,
                 N(f, ArgumentExpression(f, node)).a.type)
        ELSE /\ IsIdentifier(f, NameOf(f, node))
             /\ IsOptionalProperty(objectType, GetText(f, NameOf(f, node)))

(***************************************************************************)
(* Rule no-unnecessary-condition: its checks.  Each gives the diagnostics  *)
(* it reports, in order.                                                   *)
(***************************************************************************)
ValueIsNever == "Unnecessary conditional, value is 'never'."
AlwaysFalsy == "Unnecessary conditional, value is always falsy."
AlwaysTruthy == "Unnecessary conditional, value is always truthy."
NeverNullish ==
    "Unnecessary conditional, expected left-hand side of '??' operator to be possibly null or undefined."
AlwaysNullish ==
    "Unnecessary conditional, left-hand side of '??' operator is always 'null' or 'undefined'."
BothSidesLiteral ==
    "Unnecessary conditional, both sides of the expression are literal values."
NoOverlap == "Unnecessary conditional, the types have no overlap."
CallbackAlwaysTruthy ==
    "This callback should return a conditional, but return is always truthy."
CallbackAlwaysFalsy ==
    "This callback should return a conditional, but return is always falsy."
UnnecessaryOptionalChain ==
    "Unnecessary optional chain on a non-nullish value."

ReportOn(f, node, message) == Report(message, N(f, node).start, N(f, node).end)

RECURSIVE CheckNode(_, _, _)
CheckNode(f, node, isUnaryNotArgument) ==
    LET type == GetConstrainedTypeAtLocation(f, node)
    IN  IF IsNegation(f, node) THEN CheckNode(f, Operand(f, node), TRUE)
        ELSE IF IsArrayIndexExpression(f, node) THEN <<>>
        ELSE IF /\ IsBinaryExpression(f, node)
                /\ OperatorOf(f, node) # "QuestionQuestionToken"
        THEN CheckNode(f, Right(f, node), FALSE)
        ELSE IF \E part \in Range(UnionTypeParts(type)) :
                    \/ IsTypeAnyType(part)
                    \/ IsTypeUnknownType(part)
                    \/ TypeHasFlag(part, TypeVariableFlags)
        THEN <<>>
        ELSE IF TypeHasFlag(type, {"Never"})
        THEN <<ReportOn(f, node, ValueIsNever)>>
        ELSE IF ~IsPossiblyTruthy(type)
        THEN <<ReportOn(f, node, IF ~isUnaryNotArgument THEN AlwaysFalsy
                                 ELSE AlwaysTruthy)>>
        ELSE IF ~IsPossiblyFalsy(type)
        THEN <<ReportOn(f, node, IF ~isUnaryNotArgument THEN AlwaysTruthy
                                 ELSE AlwaysFalsy)>>
        ELSE <<>>

RECURSIVE OptionChainContainsOptionArrayIndex(_, _)
OptionChainContainsOptionArrayIndex(f, node) ==
    LET lhsNode == ExpressionOf(f, node)
    IN  IF QuestionDotToken(f, node) # 0 /\ IsArrayIndexExpression(f, lhsNode)
        THEN TRUE
        ELSE IF N(f, lhsNode).kind \in
                  {"PropertyAccessExpression", "ElementAccessExpression",
                   "CallExpression"}
        THEN OptionChainContainsOptionArrayIndex(f, lhsNode)
        ELSE FALSE

CheckNodeForNullish(f, node) ==
    LET type == GetConstrainedTypeAtLocation(f, node)
        isMember == \/ IsPropertyAccessExpression(f, node)
                    \/ IsElementAccessExpression(f, node)
    IN  IF TypeHasFlag(type, {"Any", "Unknown"} \cup TypeVariableFlags)
        THEN <<>>
        ELSE IF TypeHasFlag(type, {"Never"})
        THEN <<ReportOn(f, node, ValueIsNever)>>
        ELSE IF /\ ~IsPossiblyNullish(type)
                /\ ~(isMember /\ IsNullableMemberExpression(f, node))
        THEN IF /\ ~IsArrayIndexExpression(f, node)
                /\ ~ /\ isMember /\ IsOptionalChain(f, node)
                     /\ ~IsNonNullExpression(f, node)
                     /\ OptionChainContainsOptionArrayIndex(f, node)
             THEN <<ReportOn(f, node, NeverNullish)>>
             ELSE <<>>
        ELSE IF IsAlwaysNullish(type)
        THEN <<ReportOn(f, node, AlwaysNullish)>>
        ELSE <<>>

BOOL_OPERATORS ==
    {"LessThanToken", "GreaterThanToken", "LessThanEqualsToken",
     "GreaterThanEqualsToken", "EqualsEqualsToken", "EqualsEqualsEqualsToken",
     "ExclamationEqualsToken", "ExclamationEqualsEqualsToken"}

CheckIfBinaryExpressionIsNecessaryConditional(f, o, node) ==
    LET leftType  == GetConstrainedTypeAtLocation(f, Left(f, node))
        rightType == GetConstrainedTypeAtLocation(f, Right(f, node))
        loose == OperatorOf(f, node) \in {"EqualsEqualsToken",
                                          "ExclamationEqualsToken"}
        isComparable(type, flag) ==
            TypeHasFlag(type,
                flag \cup {"Any", "Unknown"} \cup TypeVariableFlags
                     \cup (IF loose THEN {"Null", "Undefined", "Void"}
                           ELSE {}))
    IN  IF OperatorOf(f, node) \notin BOOL_OPERATORS THEN <<>>
        ELSE IF IsLiteral(leftType) /\ IsLiteral(rightType)
        THEN <<ReportOn(f, node, BothSidesLiteral)>>
        ELSE IF /\ o.strictNullChecks
                /\ \/ /\ leftType.flags = {"Undefined"}
                      /\ ~isComparable(rightType, {"Undefined", "Void"})
                   \/ /\ rightType.flags = {"Undefined"}
                      /\ ~isComparable(leftType, {"Undefined", "Void"})
                   \/ /\ leftType.flags = {"Null"}
                      /\ ~isComparable(rightType, {"Null"})
                   \/ /\ rightType.flags = {"Null"}
                      /\ ~isComparable(leftType, {"Null"})
        THEN <<ReportOn(f, node, NoOverlap)>>
        ELSE <<>>

CheckLogicalExpressionBothOperands(f, node) ==
    IF OperatorOf(f, node) = "QuestionQuestionToken"
    THEN CheckNodeForNullish(f, Left(f, node))
    ELSE CheckNode(f, Left(f, node), FALSE)
         \o CheckNode(f, Right(f, node), FALSE)

CheckLogicalExpressionForUnnecessaryConditionals(f, node) ==
    IF OperatorOf(f, node) = "QuestionQuestionToken"
    THEN CheckNodeForNullish(f, Left(f, node))
    ELSE CheckNode(f, Left(f, node), FALSE)

CheckIfLoopIsNecessaryConditionalStrict(f, o, node) ==
    LET test == TestOf(f, node)
    IN  IF test = 0 THEN <<>> ELSE CheckNode(f, test, FALSE)

CheckIfLoopIsNecessaryConditional(f, o, node) ==
    LET test == TestOf(f, node)
    IN  IF test = 0 THEN <<>>
        ELSE IF /\ o.allowConstantLoopConditions
                /\ IsTrueLiteralType(GetConstrainedTypeAtLocation(f, test))
        THEN <<>>
        ELSE CheckNode(f, test, FALSE)

ARRAY_PREDICATE_FUNCTIONS == {"filter", "find", "some", "every"}

IsArrayPredicateFunction(f, node) ==
    LET expression == ExpressionOf(f, node)
    IN  /\ IsPropertyAccessExpression(f, expression)
        /\ IsIdentifier(f, NameOf(f, expression))
        /\ GetText(f, NameOf(f, expression)) \in ARRAY_PREDICATE_FUNCTIONS
        /\ \/ NodeIsArrayType(f, ExpressionOf(f, expression))
           \/ NodeIsTupleType(f, ExpressionOf(f, expression))

\* the body of a function, the statements of a block, the expression of a
\* return statement (0 if it has none)
BodyOf(f, n) == N(f, n).kids[Len(N(f, n).kids)]
StatementsOf(f, b) == N(f, N(f, b).kids[2]).kids
ReturnedExpression(f, r) ==
    IF N(f, N(f, r).kids[2]).kind = "SemicolonToken" THEN 0
    ELSE N(f, r).kids[2]

CheckCallExpression(f, node) ==
    LET callback == Arguments(f, node)[1]
        inline == N(f, callback).kind \in {"ArrowFunction", "FunctionExpression"}
        body == BodyOf(f, callback)
        callbackBody == StatementsOf(f, body)
        returnTypes == ReturnTypes(GetConstrainedTypeAtLocation(f, callback))
    IN  IF ~(IsArrayPredicateFunction(f, node) /\ Len(Arguments(f, node)) # 0)
        THEN <<>>
        ELSE IF inline /\ N(f, body).kind # "Block"
        THEN CheckNode(f, body, FALSE)
        ELSE IF /\ inline
                /\ Len(callbackBody) = 1
                /\ N(f, callbackBody[1]).kind = "ReturnStatement"
                /\ ReturnedExpression(f, callbackBody[1]) # 0
        THEN CheckNode(f, ReturnedExpression(f, callbackBody[1]), FALSE)
        ELSE IF Len(returnTypes) = 0 THEN <<>>
        ELSE IF \E t \in Range(returnTypes) :
                    IsTypeAnyType(t) \/ IsTypeUnknownType(t)
        THEN <<>>
        ELSE (IF ~ \E t \in Range(returnTypes) : IsPossiblyFalsy(t)
              THEN <<ReportOn(f, callback, CallbackAlwaysTruthy)>> ELSE <<>>)
             \o (IF ~ \E t \in Range(returnTypes) : IsPossiblyTruthy(t)
                 THEN <<ReportOn(f, callback, CallbackAlwaysFalsy)>>
                 ELSE <<>>)

IsMemberExpressionNullableOriginFromObject(f, node) ==
    LET prevType == GetConstrainedTypeAtLocation(f, ExpressionOf(f, node))
        property == IF IsPropertyAccessExpression(f, node) THEN NameOf(f, node)
                    ELSE ArgumentExpression(f, node)
        ownNullable(type) ==
            IF IsElementAccessExpression(f, node)
            THEN IsNullablePropertyType(type,
                     GetConstrainedTypeAtLocation(f, ArgumentExpression(f, node)))
            ELSE IF TypeOfPropertyOfName(type, GetText(f, property)) # NoType
            THEN IsNullableType(TypeOfPropertyOfName(type, GetText(f, property)))
            ELSE "string" \in IndexKeyTypeNames(type)
    IN  IF "Union" \in prevType.flags /\ IsIdentifier(f, property)
        THEN /\ ~ \E type \in Range(prevType.types) : ownNullable(type)
             /\ IsNullableType(prevType)
        ELSE FALSE

IsCallExpressionNullableOriginFromCallee(f, node) ==
    LET prevType == GetConstrainedTypeAtLocation(f, ExpressionOf(f, node))
    IN  IF "Union" \in prevType.flags
        THEN /\ ~ \E type \in Range(prevType.types) :
                    \E ret \in Range(ReturnTypes(type)) : IsNullableType(ret)
             /\ IsNullableType(prevType)
        ELSE FALSE

IsOptionableExpression(f, node) ==
    LET type == GetConstrainedTypeAtLocation(f, node)
        isOwnNullable ==
            IF \/ IsPropertyAccessExpression(f, node)
               \/ IsElementAccessExpression(f, node)
            THEN ~IsMemberExpressionNullableOriginFromObject(f, node)
            ELSE IF IsCallExpression(f, node)
            THEN ~IsCallExpressionNullableOriginFromCallee(f, node)
            ELSE TRUE
        possiblyVoid == TypeHasFlag(type, {"Void"})
    IN  \/ TypeHasFlag(type, {"Any", "Unknown"})
        \/ isOwnNullable /\ (IsNullableType(type) \/ possiblyVoid)

\* nullThrows throws when getTokenAfter finds no `?.`: the exception ends
\* the check and is swallowed by the try/catch of the callback
CheckOptionalChain(f, node, beforeOperator, fix) ==
    LET questionDotOperator ==
            GetTokenAfter(f, beforeOperator, "QuestionDotToken")
    IN  IF QuestionDotToken(f, node) = 0 THEN <<>>
        ELSE IF OptionChainContainsOptionArrayIndex(f, node) THEN <<>>
        ELSE IF IsOptionableExpression(f, ExpressionOf(f, node)) THEN <<>>
        ELSE IF questionDotOperator = 0 THEN <<>>
        ELSE <<WithFix(ReportOn(f, questionDotOperator,
                                UnnecessaryOptionalChain),
                       Fix("optionalChain", questionDotOperator, fix))>>

CheckOptionalMemberExpression(f, node) ==
    CheckOptionalChain(f, node, ExpressionOf(f, node),
                       IF IsElementAccessExpression(f, node) THEN "" ELSE ".")

CheckOptionalCallExpression(f, node) ==
    CheckOptionalChain(f, node, ExpressionOf(f, node), "")

\* the callback cb of no-unnecessary-condition
ConditionVisit(f, o, node) ==
    LET kind == N(f, node).kind
        reports ==
            IF IsBinaryExpression(f, node)
            THEN IF OperatorOf(f, node) \in
                      {"BarBarEqualsToken", "AmpersandAmpersandEqualsToken"}
                 THEN CheckNode(f, Left(f, node), FALSE)
                 ELSE IF OperatorOf(f, node) = "QuestionQuestionEqualsToken"
                 THEN CheckNodeForNullish(f, Left(f, node))
                 ELSE IF OperatorOf(f, node) \in
                           {"QuestionQuestionToken", "BarBarToken",
                            "AmpersandAmpersandToken"}
                 THEN CheckLogicalExpressionForUnnecessaryConditionals(f, node)
                 ELSE CheckIfBinaryExpressionIsNecessaryConditional(f, o, node)
            ELSE IF IsCallExpression(f, node) THEN CheckCallExpression(f, node)
            ELSE IF kind = "ConditionalExpression"
            THEN CheckNode(f, Condition(f, node), FALSE)
            ELSE IF kind \in {"DoStatement", "ForStatement", "WhileStatement"}
            THEN CheckIfLoopIsNecessaryConditional(f, o, node)
            ELSE IF kind = "IfStatement"
            THEN CheckNode(f, TestOf(f, node), FALSE)
            ELSE IF /\ \/ IsPropertyAccessExpression(f, node)
                       \/ IsElementAccessExpression(f, node)
                    /\ QuestionDotToken(f, node) # 0
            THEN CheckOptionalMemberExpression(f, node)
            ELSE IF IsCallExpression(f, node) /\ QuestionDotToken(f, node) # 0
            THEN CheckOptionalCallExpression(f, node)
            ELSE <<>>
    IN  Outcome(reports, TRUE, FALSE)

(***************************************************************************)
(* The files no-unnecessary-condition is run on.                           *)
(***************************************************************************)
\* the operands of the comparisons: literals, undefined, null and the
\* identifiers s: string, u: string | undefined, v: void, x: any,
\* t: T (T extends 'a')
ConditionOperands ==
    {"1", "1n", "'foo'", "true", "undefined", "null", "s", "u", "v", "x", "t"}

OperandType(w) ==
    CASE w = "1" -> TLit1
      [] w = "1n" -> TLit1n
      [] w = "'foo'" -> TLitFoo
      [] w = "true" -> TTrue
      [] w = "undefined" -> TUndefined
      [] w = "null" -> TNull
      [] w = "s" -> TString
      [] w = "u" -> TStringOrUndefined
      [] w = "v" -> TVoid
      [] w = "x" -> TAny
      [] w = "t" -> TParamA

OperandLeaf(trivia, w) ==
    CASE w = "1" -> Leaf("NumericLiteral", trivia, w, WithType(OperandType(w)))
      [] w = "1n" -> Leaf("BigIntLiteral", trivia, w, WithType(OperandType(w)))
      [] w = "'foo'" ->
           Leaf("StringLiteral", trivia, w, WithType(OperandType(w)))
      [] w = "true" -> Leaf("TrueKeyword", trivia, w, WithType(OperandType(w)))
      [] w = "null" -> Leaf("NullKeyword", trivia, w, WithType(OperandType(w)))
      [] OTHER -> Ident(trivia, w, WithType(OperandType(w)))

ComparisonOperators ==
    {"<", ">", "<=", ">=", "==", "===", "!=", "!==", "+"}

\* l <op> r;   or   if (l <op> r) {}
ComparisonFile(l, op, r, inIf) ==
    Parse(SourceFile(
      <<IF inIf
        THEN IfTerm(Binary(OperandLeaf("", l), op, OperandLeaf(" ", r),
                           IF op = "+" THEN TAny ELSE TBoolean))
        ELSE ExprStatement(Binary(OperandLeaf("\n", l), op,
                                  OperandLeaf(" ", r),
                                  IF op = "+" THEN TAny ELSE TBoolean))>>))

\* the types of the identifier a in the other files
ConditionTypes ==
    {TString, TStringOrUndefined, TUndefined, TLitFoo, TLitEmpty, TAny,
     TNever, TObject, TBoolean, TTrue}

\* r.p, r?.p, r[i], r?.[i], r(), r?.() on the receiver r, of type t
AccessTerm(form, optional, receiver, t) ==
    LET q == IF optional THEN <<PropTok("QuestionDotToken", "", "?.")>>
             ELSE <<>>
    IN  CASE form = "property" ->
               Node("PropertyAccessExpression",
                    <<receiver>>
                    \o (IF optional THEN q ELSE <<Tok("DotToken", "", ".")>>)
                    \o <<Ident("", "p", A0)>>, WithType(t))
          [] form = "element" ->
               Node("ElementAccessExpression",
                    <<receiver>> \o q
                    \o <<Tok("OpenBracketToken", "", "["),
                         Leaf("StringLiteral", "", "'p'", WithType(TLitP)),
                         Tok("CloseBracketToken", "", "]")>>, WithType(t))
          [] form = "call" ->
               Node("CallExpression",
                    <<receiver>> \o q
                    \o <<Tok("OpenParenToken", "", "("), List(<<>>),
                         Tok("CloseParenToken", "", ")")>>, WithType(t))

\* q[k]: an element access whose argument k has the type of an array
IndexTerm(trivia, t) ==
    Node("ElementAccessExpression",
         <<Ident(trivia, "q", WithType(TArray)),
           Tok("OpenBracketToken", "", "["), Ident("", "k", WithType(TArray)),
           Tok("CloseBracketToken", "", "]")>>, WithType(t))

\* a <op> b;  for || && ?? ||= &&= ??=, a of type t;  if (!a) {}  for "!";
\* and r.p ?? b; for "member", r of type t
LogicalForms ==
    {"||", "&&", "??", "||=", "&&=", "??=", "if", "!", "!!", "!!!", "member"}

\* the operand under n prefix `!`
RECURSIVE Negated(_, _)
Negated(n, operand) ==
    IF n = 0 THEN operand
    ELSE Node("PrefixUnaryExpression",
              <<Tok("ExclamationToken", "", "!"), Negated(n - 1, operand)>>,
              WithType(TBoolean))

LogicalFile(form, t) ==
    Parse(SourceFile(
      <<CASE form \in {"if", "!", "!!", "!!!"} ->
               IfTerm(Negated(IF form = "if" THEN 0 ELSE Len(form),
                              Ident("", "a", WithType(t))))
          [] form = "member" ->
               ExprStatement(Binary(
                   AccessTerm("property", FALSE, Ident("\n", "r", WithType(t)),
                              TString),
                   "??", Ident(" ", "b", WithType(TString)), TString))
          [] OTHER ->
               ExprStatement(Binary(Ident("\n", "a", WithType(t)), form,
                                    Ident(" ", "b", WithType(TString)),
                                    TString))>>))

EmptyBlock ==
    Node("Block", <<Tok("OpenBraceToken", " ", "{"), List(<<>>),
                    Tok("CloseBraceToken", "", "}")>>, A0)

\* while (a) {}   do {} while (a);   for (;a;) {}   for (;;) {}   a ? b : c;
LoopForms == {"while", "do", "for", "forever", "ternary"}

LoopFile(form, t) ==
    LET a(trivia) == Ident(trivia, "a", WithType(t))
    IN  Parse(SourceFile(
          <<CASE form = "while" ->
                   Node("WhileStatement",
                        <<Tok("WhileKeyword", "\n", "while"),
                          Tok("OpenParenToken", " ", "("), a(""),
                          Tok("CloseParenToken", "", ")"), EmptyBlock>>, A0)
              [] form = "do" ->
                   Node("DoStatement",
                        <<Tok("DoKeyword", "\n", "do"), EmptyBlock,
                          Tok("WhileKeyword", " ", "while"),
                          Tok("OpenParenToken", " ", "("), a(""),
                          Tok("CloseParenToken", "", ")"),
                          Tok("SemicolonToken", "", ";")>>, A0)
              [] form = "for" ->
                   Node("ForStatement",
                        <<Tok("ForKeyword", "\n", "for"),
                          Tok("OpenParenToken", " ", "("),
                          Tok("SemicolonToken", "", ";"), a(""),
                          Tok("SemicolonToken", "", ";"),
                          Tok("CloseParenToken", "", ")"), EmptyBlock>>, A0)
              [] form = "forever" ->
                   Node("ForStatement",
                        <<Tok("ForKeyword", "\n", "for"),
                          Tok("OpenParenToken", " ", "("),
                          Tok("SemicolonToken", "", ";"),
                          Tok("SemicolonToken", "", ";"),
                          Tok("CloseParenToken", "", ")"), EmptyBlock>>, A0)
              [] form = "ternary" ->
                   ExprStatement(Conditional(a("\n"),
                       Ident(" ", "b", WithType(TString)),
                       Ident(" ", "c", WithType(TString))))>>))

\* the receivers of the optional steps: r, of type t, or q[k]
AccessForms == {"property", "element", "call"}
ReceiverTypes ==
    {TObject, TObjectOrUndefined, TObjectOrObjectQ, TAny, TUnknown, TVoid,
     TFunction, TArray}

\* r.p;  r?.p;  r?.[i];  r?.();  q[k]?.p;  ...
ChainFile(form, optional, indexed, t) ==
    Parse(SourceFile(
      <<ExprStatement(
          AccessTerm(form, optional,
                     IF indexed THEN IndexTerm("\n", t)
                     ELSE Ident("\n", "r", WithType(t)),
                     TStringOrUndefined))>>))

\* the callbacks of the array predicates:  x => a   x => { return a; }
\* x => { return; }   g (an identifier)   and no argument at all
CallbackForms == {"arrow", "block", "bare", "reference", "none"}

PredicateFile(method, receiver, form, t) ==
    LET a == Ident(" ", "a", WithType(t))
        return(e) ==
            Node("ReturnStatement",
                 <<Tok("ReturnKeyword", " ", "return")>> \o e
                 \o <<Tok("SemicolonToken", "", ";")>>, A0)
        block(e) ==
            Node("Block",
                 <<Tok("OpenBraceToken", " ", "{"), List(<<return(e)>>),
                   Tok("CloseBraceToken", " ", "}")>>, A0)
        arrow(body, type) ==
            Node("ArrowFunction",
                 <<List(<<Node("Parameter", <<Ident("", "x", A0)>>, A0)>>),
                   PropTok("EqualsGreaterThanToken", " ", "=>"), body>>,
                 WithType(type))
        arguments ==
            CASE form = "arrow" -> <<arrow(a, TFunction)>>
              [] form = "block" -> <<arrow(block(<<a>>), TFunction)>>
              [] form = "bare" -> <<arrow(block(<<>>), TFunctionV)>>
              [] form = "reference" -> <<Ident("", "g", WithType(t))>>
              [] form = "none" -> <<>>
    IN  Parse(SourceFile(
          <<ExprStatement(
              Node("CallExpression",
                   <<Node("PropertyAccessExpression",
                          <<Ident("\n", "arr", WithType(receiver)),
                            Tok("DotToken", "", "."),
                            Ident("", method, A0)>>, A0),
                     Tok("OpenParenToken", "", "("), List(arguments),
                     Tok("CloseParenToken", "", ")")>>, A0))>>))

\* a test made of two or three operands joined by one operator:
\* `if (a && b) {}`, `while (a && b && c) {}`, `a && b ? 's' : 't';`
TestStatements == {"if", "while", "ternary"}
TestOperators == {"&&", "||", ",", "="}
TestOperandTypes == {TString, TLitFoo, TLitEmpty, TObject}

TestChains == {"a.b", "(a.b).c", "a.(b.c)"}

\* the type of `b && c` and of `b || c` for b of type string
TypeAfterString(op, t) ==
    IF op = "&&" /\ t # TLitEmpty THEN UnionOf(<<TLitEmpty, t>>)
    ELSE IF op = "&&" THEN TLitEmpty
    ELSE TString

TestFile(statement, op, chain, ta, tb) ==
    LET a == Ident(IF statement = "ternary" THEN "\n" ELSE "", "a",
                   WithType(ta))
        b == Ident(" ", "b", WithType(tb))
        c == Ident(" ", "c", WithType(tb))
        inner == Node("ParenthesizedExpression",
                      <<Tok("OpenParenToken", " ", "("),
                        Binary(Ident("", "b", WithType(TString)), op, c,
                               TypeAfterString(op, tb)),
                        Tok("CloseParenToken", "", ")")>>,
                      WithType(TypeAfterString(op, tb)))
        test == CASE chain = "a.b" -> Binary(a, op, b, tb)
                  [] chain = "(a.b).c" ->
                       Binary(Binary(a, op, b, tb), op, c, tb)
                  [] chain = "a.(b.c)" ->
                       Binary(a, op, inner, TypeAfterString(op, tb))
    IN  Parse(SourceFile(
          <<CASE statement = "if" -> IfTerm(test)
              [] statement = "while" ->
                   Node("WhileStatement",
                        <<Tok("WhileKeyword", "\n", "while"),
                          Tok("OpenParenToken", " ", "("), test,
                          Tok("CloseParenToken", "", ")"), EmptyBlock>>, A0)
              [] statement = "ternary" ->
                   ExprStatement(Conditional(test,
                       Leaf("StringLiteral", " ", "'s'", WithType(TString)),
                       Leaf("StringLiteral", " ", "'t'", WithType(TString))))>>))

ConditionDefaults ==
    [allowConstantLoopConditions |-> FALSE,
     allowRuleToRunWithoutStrictNullChecksIKnowWhatIAmDoing |-> FALSE,
     strictNullChecks |-> TRUE]

ConditionInit ==
    \/ \E l \in ConditionOperands, op \in ComparisonOperators,
          r \in ConditionOperands, inIf \in BOOLEAN, strict \in BOOLEAN :
            Create("no-unnecessary-condition",
                   [ConditionDefaults EXCEPT !.strictNullChecks = strict],
                   ComparisonFile(l, op, r, inIf))
    \/ \E form \in LogicalForms, t \in ConditionTypes \cup {TObjectQ} :
            Create("no-unnecessary-condition", ConditionDefaults,
                   LogicalFile(form, t))
    \/ \E statement \in TestStatements, op \in TestOperators,
          chain \in TestChains, ta \in TestOperandTypes,
          tb \in TestOperandTypes :
            /\ chain = "a.(b.c)" => op \in {"&&", "||"}
            /\ Create("no-unnecessary-condition", ConditionDefaults,
                      TestFile(statement, op, chain, ta, tb))
    \/ \E form \in LoopForms, t \in ConditionTypes, allow \in BOOLEAN :
            Create("no-unnecessary-condition",
                   [ConditionDefaults EXCEPT
                       !.allowConstantLoopConditions = allow],
                   LoopFile(form, t))
    \/ \E form \in AccessForms, optional \in BOOLEAN, indexed \in BOOLEAN,
          t \in ReceiverTypes, strict \in BOOLEAN, allow \in BOOLEAN :
            Create("no-unnecessary-condition",
                   [ConditionDefaults EXCEPT
                       !.strictNullChecks = strict,
                       !.allowRuleToRunWithoutStrictNullChecksIKnowWhatIAmDoing
                           = allow],
                   ChainFile(form, optional, indexed, t))
    \/ \E method \in {"filter", "map"}, receiver \in {TArray, TTuple, TObject},
          form \in CallbackForms,
          t \in {TString, TLitFoo, TLitEmpty, TAny, TFunction, TFunctionQ,
                 TFunctionT, TObject} :
            Create("no-unnecessary-condition", ConditionDefaults,
                   PredicateFile(method, receiver, form, t))

\* the rule starts: it checks the compiler options (with the message of
\* prefer-nullish-coalescing) and begins the traversal
ConditionBegin ==
    /\ rule = "no-unnecessary-condition"
    /\ status = "created"
    /\ diags' =
         IF /\ ~opts.strictNullChecks
            /\ ~opts.allowRuleToRunWithoutStrictNullChecksIKnowWhatIAmDoing
         THEN <<Report(RequiresStrictNullChecks, 0, 0)>> ELSE <<>>
    /\ todo' = ForEachChild(file, 1)
    /\ status' = "running"
    /\ UNCHANGED <<rule, opts, file, visited>>

ConditionCallback ==
    /\ rule = "no-unnecessary-condition"
    /\ status = "running"
    /\ todo # <<>>
    /\ Step(ConditionVisit(file, opts, Head(todo)))

\* no diagnostic of this rule ever carries a fix (see CheckOptionalChain),
\* so the host has no fix to evaluate
ConditionNext == ConditionBegin \/ ConditionCallback \/ Return

SpecCondition == ConditionInit /\ [][ConditionNext]_vars

(***************************************************************************)
(* C8: every binary expression whose operator is one of < > <= >= == ===   *)
(* != !== and whose two operand types are both literal-only (a boolean,    *)
(* string, number or bigint literal, undefined, null or void) gets exactly *)
(* one diagnostic, "both sides of the expression are literal values", on   *)
(* the whole expression, and never the "types have no overlap" one.        *)
(***************************************************************************)
LiteralOnly(type) ==
    /\ type.flags # {}
    /\ type.flags \subseteq {"BooleanLiteral", "StringLiteral", "NumberLiteral",
                             "BigIntLiteral", "Undefined", "Null", "Void"}

LiteralComparisons(f) ==
    {n \in NodeIds(f) :
        /\ N(f, n).kind = "BinaryExpression"
        /\ GetText(f, N(f, n).kids[2]) \in
              {"<", ">", "<=", ">=", "==", "===", "!=", "!=="}
        /\ LiteralOnly(GetConstrainedTypeAtLocation(f, N(f, n).kids[1]))
        /\ LiteralOnly(GetConstrainedTypeAtLocation(f, N(f, n).kids[3]))}

C8_BothSidesLiteral ==
    (rule = "no-unnecessary-condition" /\ status = "done") =>
        \A n \in LiteralComparisons(file) :
            /\ Cardinality(DiagsOn(file, n)) = 1
            /\ \A i \in DiagsOn(file, n) : diags[i].message = BothSidesLiteral
            /\ ~ \E i \in DiagsOn(file, n) : diags[i].message = NoOverlap

\* the rule has run on `if (1 === 1) {}` and reported the comparison
C8_Witness ==
    /\ rule = "no-unnecessary-condition"
    /\ status = "done"
    /\ file.text = "\nif (1 === 1) {}\n"
    /\ \E n \in LiteralComparisons(file), i \in 1..Len(diags) :
          /\ GetText(file, n) = "1 === 1"
          /\ diags[i].message = BothSidesLiteral
          /\ diags[i].start = N(file, n).start
          /\ diags[i].end = N(file, n).end

(***************************************************************************)
(* C6: every optional step r?.p, r?.[i] or r?.() whose receiver has a type *)
(* that is not any or unknown, not nullable and not void, in a chain       *)
(* without an optional step on an array-index expression, is reported as   *)
(* "Unnecessary optional chain on a non-nullish value." on its `?.` token, *)
(* with a fix that replaces the token by "." (property access) or by ""    *)
(* (element access, call).                                                 *)
(***************************************************************************)
NeverNullishReceiver(type) ==
    \A part \in Range(UnionTypeParts(type)) :
        part.flags \cap {"Any", "Unknown", "Null", "Undefined", "Void"} = {}

UnnecessaryOptionalSteps(f) ==
    {n \in NodeIds(f) :
        /\ N(f, n).kind \in {"PropertyAccessExpression",
                             "ElementAccessExpression", "CallExpression"}
        /\ ChildOfKind(f, n, "QuestionDotToken") # 0
        /\ NeverNullishReceiver(
              GetConstrainedTypeAtLocation(f, N(f, n).kids[1]))
        /\ ~OptionChainContainsOptionArrayIndex(f, n)}

C6_OptionalChain ==
    (rule = "no-unnecessary-condition" /\ status = "done") =>
        \A n \in UnnecessaryOptionalSteps(file) :
            LET token == ChildOfKind(file, n, "QuestionDotToken")
            IN  \E i \in DiagsOn(file, token) :
                    /\ diags[i].message = UnnecessaryOptionalChain
                    /\ diags[i].fix.arg =
                         (IF N(file, n).kind = "PropertyAccessExpression"
                          THEN "." ELSE "")

(***************************************************************************)
(* C11: whenever prefer-nullish-coalescing reports a ternary and offers    *)
(* the rewrite `x ?? alt`, the rewritten expression has the same value as  *)
(* the ternary for every runtime value of x that its type admits (null,    *)
(* undefined or a non-nullish value); in particular a test in which a      *)
(* compared pair is not (x, null) or (x, undefined) is not reported.       *)
(* Values are "null", "undefined", "true", "false" and one non-nullish     *)
(* value per identifier.                                                   *)
(***************************************************************************)
\* the runtime values a type admits, for the identifier `name`
Admitted(type, name) ==
    IF type.flags \cap {"Any", "Unknown"} # {}
    THEN {"null", "undefined", name}
    ELSE {IF "Null" \in part.flags THEN "null"
          ELSE IF "Undefined" \in part.flags THEN "undefined"
          ELSE name : part \in Range(UnionTypeParts(type))}

\* the environments of a file: a value for each of its identifiers
Environments(f) ==
    LET names == {GetText(f, n) : n \in {m \in NodeIds(f) :
                     N(f, m).kind = "Identifier"}} \ {"undefined"}
        typeOf(name) ==
            N(f, CHOOSE n \in NodeIds(f) :
                    N(f, n).kind = "Identifier" /\ GetText(f, n) = name).a.type
    IN  {env \in [names -> {"null", "undefined"} \cup names] :
            \A name \in names : env[name] \in Admitted(typeOf(name), name)}

Nullish(v) == v \in {"null", "undefined"}
Truthy(v) == v \notin {"null", "undefined", "false"}
Bool(b) == IF b THEN "true" ELSE "false"

\* the value of an expression of the file in an environment
RECURSIVE ValueOf(_, _, _)
ValueOf(f, n, env) ==
    LET kind == N(f, n).kind
        l == ValueOf(f, N(f, n).kids[1], env)
        r == ValueOf(f, N(f, n).kids[3], env)
        op == GetText(f, N(f, n).kids[2])
    IN  CASE kind = "NullKeyword" -> "null"
          [] kind = "Identifier" ->
               IF GetText(f, n) = "undefined" THEN "undefined"
               ELSE env[GetText(f, n)]
          [] kind = "BinaryExpression" ->
               (CASE op = "===" -> Bool(l = r)
                  [] op = "!==" -> Bool(l # r)
                  [] op = "==" -> Bool(l = r \/ (Nullish(l) /\ Nullish(r)))
                  [] op = "!=" -> Bool(~(l = r \/ (Nullish(l) /\ Nullish(r))))
                  [] op = "||" -> IF Truthy(l) THEN l ELSE r
                  [] op = "&&" -> IF Truthy(l) THEN r ELSE l
                  [] op = "??" -> IF Nullish(l) THEN r ELSE l)
          [] kind = "ConditionalExpression" ->
               IF Truthy(l) THEN r ELSE ValueOf(f, N(f, n).kids[5], env)

\* the value of the text `x ?? y` of a rewrite, x and y identifiers of one
\* letter
ValueOfRewrite(text, env) ==
    LET x == env[SubSeq(text, 1, 1)]
        y == env[SubSeq(text, Len(text), Len(text))]
    IN  IF Nullish(x) THEN y ELSE x

C11_RewriteKeepsValue ==
    (rule = "prefer-nullish-coalescing" /\ status = "done") =>
        \A n \in NodeIds(file) : \A i \in DiagsOn(file, n) :
            (/\ N(file, n).kind = "ConditionalExpression"
             /\ diags[i].message = PreferNullishOverTernary
             /\ diags[i].fixState = "ok") =>
                \A env \in Environments(file) :
                    ValueOf(file, n, env)
                        = ValueOfRewrite(diags[i].edits[1].newText, env)

(***************************************************************************)
(* C12: for a non-null assertion e! that is no operand of a plain `=`      *)
(* assignment, whose operand type is nullable or void and that has a       *)
(* contextual type, a diagnostic is reported if and only if, for each of   *)
(* undefined, null and void, the flags of the contextual type include the  *)
(* class whenever the flags of the operand's type include it.              *)
(***************************************************************************)
NullableOrVoid(type) ==
    \/ \E part \in Range(UnionTypeParts(type)) :
          part.flags \cap {"Null", "Undefined"} # {}
    \/ "Void" \in type.flags

\* the non-null assertions the claim is about
ContextualNonNulls(f) ==
    {n \in NodeIds(f) :
        /\ N(f, n).kind = "NonNullExpression"
        /\ ~ /\ N(f, N(f, n).parent).kind = "BinaryExpression"
             /\ GetText(f, N(f, N(f, n).parent).kids[2]) = "="
        /\ NullableOrVoid(GetConstrainedTypeAtLocation(f, N(f, n).kids[1]))
        /\ N(f, n).a.contextual # NoType}

FlagsAccepted(f, n) ==
    \A class \in {"Undefined", "Null", "Void"} :
        class \in GetConstrainedTypeAtLocation(f, N(f, n).kids[1]).flags
            => class \in N(f, n).a.contextual.flags

RECURSIVE Spaces(_)
Spaces(n) == IF n = 0 THEN "" ELSE " " \o Spaces(n - 1)

\* string.replaceAll(from, to), `from` one character
RECURSIVE ReplaceAll(_, _, _)
ReplaceAll(string, from, to) ==
    IF Len(string) = 0 THEN ""
    ELSE (IF SubSeq(string, 1, 1) = from THEN to ELSE SubSeq(string, 1, 1))
         \o ReplaceAll(SubSeq(string, 2, Len(string)), from, to)

\* sourceFile.getLineAndCharacterOfPosition(pos).character
CharacterOf(f, pos) ==
    LET breaks == {i \in 1..pos : SubSeq(f.text, i, i) = "\n"}
    IN  IF breaks = {} THEN pos
        ELSE pos - (CHOOSE i \in breaks : \A j \in breaks : j <= i)

\* ts.isIdentifierStart and ts.isIdentifierPart, on the characters of the
\* names of the model
IdentifierStarts ==
    {"a", "b", "c", "d", "e", "f", "g", "h", "i", "j", "k", "l", "m", "n", "o",
     "p", "q", "r", "s", "t", "u", "v", "w", "x", "y", "z", "A", "E", "$", "_"}
IsIdentifierStart(c) == c \in IdentifierStarts
IsIdentifierPart(c) ==
    c \in IdentifierStarts
          \cup {"0", "1", "2", "3", "4", "5", "6", "7", "8", "9"}

RequiresQuoting(name) ==
    IF Len(name) = 0 THEN TRUE
    ELSE IF ~IsIdentifierStart(SubSeq(name, 1, 1)) THEN TRUE
    ELSE \E i \in 2..Len(name) : ~IsIdentifierPart(SubSeq(name, i, i))

\* node.getFirstToken(sourceFile) and node.getLastToken(sourceFile)
RECURSIVE FirstToken(_, _)
FirstToken(f, n) ==
    IF Len(N(f, n).kids) = 0 THEN n ELSE FirstToken(f, N(f, n).kids[1])
RECURSIVE LastToken(_, _)
LastToken(f, n) ==
    IF Len(N(f, n).kids) = 0 THEN n
    ELSE LastToken(f, N(f, n).kids[Len(N(f, n).kids)])

MissingCaseUnquoted(missingBranchType, symbolName) ==
    LET caseTest == IF IsTypeFlagSet(missingBranchType,
                                     {"ESSymbol", "UniqueESSymbol"})
                    THEN SymbolNameOf(missingBranchType)
                    ELSE TypeToString(missingBranchType)
    IN  IF missingBranchType = NoType
        THEN "default: { throw new Error('default case') }"
        ELSE "case " \o caseTest \o ": { throw new Error('Not implemented yet: "
             \o ReplaceAll(ReplaceAll(caseTest, "\\", "\\\\"), "'", "\\'")
             \o " case') }"

\* the code of one missing branch; NoType stands for the default branch
MissingCase(missingBranchType, symbolName) ==
    LET missingBranchName == SymbolNameOf(missingBranchType)
        plain == IF IsTypeFlagSet(missingBranchType,
                                  {"ESSymbol", "UniqueESSymbol"})
                 THEN missingBranchName
                 ELSE TypeToString(missingBranchType)
        escapedBranchName ==
            ReplaceAll(ReplaceAll(ReplaceAll(missingBranchName, "'", "\\'"),
                                  "\n", "\\n"), "\r", "\\r")
        caseTest ==
            IF /\ symbolName # ""
               /\ missingBranchName # ""
               /\ RequiresQuoting(missingBranchName)
            THEN symbolName \o "['" \o escapedBranchName \o "']"
            ELSE plain
    IN  IF missingBranchType = NoType
        THEN "default: { throw new Error('default case') }"
        ELSE "case " \o caseTest \o ": { throw new Error('Not implemented yet: "
             \o ReplaceAll(ReplaceAll(caseTest, "\\", "\\\\"), "'", "\\'")
             \o " case') }"

FixSwitch(f, node, missingBranchTypes, symbolName) ==
    LET clauses == Clauses(f, node)
        lastCase == IF Len(clauses) > 0 THEN clauses[Len(clauses)] ELSE 0
        caseIndent ==
            Spaces(CharacterOf(f, N(f, IF lastCase # 0 THEN lastCase
                                       ELSE node).start))
        fixString ==
            Join([i \in 1..Len(missingBranchTypes) |->
                    caseIndent \o MissingCase(missingBranchTypes[i],
                                              symbolName)], "\n")
        openingBrace == FirstToken(f, CaseBlock(f, node))
        closingBrace == LastToken(f, CaseBlock(f, node))
    IN  IF lastCase # 0
        THEN Edits(<<TextChange(N(f, lastCase).start, 0, "\n" \o fixString)>>)
        ELSE IF N(f, openingBrace).kind # "OpenBraceToken" THEN Threw
        ELSE IF N(f, closingBrace).kind # "CloseBraceToken" THEN Threw
        ELSE Edits(<<TextChange(
                       N(f, openingBrace).start,
                       N(f, closingBrace).end - N(f, openingBrace).start,
                       Join(<<"{", fixString, caseIndent \o "}">>, "\n"))>>)

\* the fixes of the rule: of checkSwitchExhaustive ("missing") and of
\* checkSwitchNoUnionDefaultCase ("default")
SwitchFix(f, fix) ==
    LET m == CHOOSE m \in {GetSwitchMetadata(f, fix.node)} : TRUE
    IN  IF fix.arg = "missing"
        THEN FixSwitch(f, fix.node, m.missingLiteralBranchTypes, m.symbolName)
        ELSE FixSwitch(f, fix.node, <<NoType>>, "")

\* the switch statements whose fixes are evaluated
MaxFixClauses == 2
FixClauseSeqs ==
    {ls \in SeqsUpTo(ClauseChoices, MaxFixClauses) : AtMostOneDefault(ls)}

\* a switch whose discriminant is missing: `switch () {}`; the parser puts a
\* zero-width identifier there, whose type is the error type (any)
SwitchFileMissing(labels) ==
    Parse(SourceFile(<<SwitchTerm("", TAny, labels, "\n", <<>>)>>))

SwitchFixInit ==
    \/ \E type \in DiscriminantTypes \cup {TEnum}, ls \in FixClauseSeqs,
          nested \in BOOLEAN, o \in SwitchOpts :
            /\ nested => ls # <<>>
            /\ Start("switch-exhaustiveness-check", o,
                     SwitchFile(type, ls, nested,
                                IF nested THEN <<"'a'">> ELSE <<>>))
    \/ \E ls \in FixClauseSeqs, o \in SwitchOpts :
            Start("switch-exhaustiveness-check", o, SwitchFileMissing(ls))

\* the host evaluates the fix of a diagnostic once the rule has returned
SwitchEvalFix ==
    /\ rule = "switch-exhaustiveness-check"
    /\ status = "done"
    /\ \E i \in 1..Len(diags) :
        /\ diags[i].fixState = "pending"
        /\ LET result == SwitchFix(file, diags[i].fix)
           IN  diags' = [diags EXCEPT
                           ![i].fixState = IF result.throws THEN "threw"
                                           ELSE "ok",
                           ![i].edits = result.edits]
    /\ UNCHANGED <<rule, opts, file, todo, visited, status>>

SwitchFixNext == SwitchCallback \/ Return \/ SwitchEvalFix

SpecSwitchFix == SwitchFixInit /\ [][SwitchFixNext]_vars

\* the text a `case` branch for the part tests: a symbol and an enum member
\* by their names, every other part as it is printed
CaseValue(part) ==
    CASE part = TSym -> "sym"
      [] part = TEnumA -> "E.A"
      [] part = TEnumQ -> "E['it\\'s']"
      [] OTHER -> part.name

CaseBranch(part) ==
    "case " \o CaseValue(part) \o ": { throw new Error('Not implemented yet: "
    \o ReplaceAll(ReplaceAll(CaseValue(part), "\\", "\\\\"), "'", "\\'")
    \o " case') }"

DefaultBranch == "default: { throw new Error('default case') }"

\* the one edit that puts the branches into the switch sw and nothing else
RECURSIVE Lines(_, _)
Lines(indent, branches) ==
    IF branches = <<>> THEN ""
    ELSE "\n" \o indent \o Head(branches) \o Lines(indent, Tail(branches))

BranchesInserted(f, sw, branches) ==
    LET clauses == Clauses(f, sw)
        last == clauses[Len(clauses)]
        block == N(f, CaseBlock(f, sw))
    IN  IF clauses # <<>>
        THEN <<[start |-> N(f, last).start, length |-> 0,
                newText |-> Lines(Spaces(CharacterOf(f, N(f, last).start)),
                                  branches)]>>
        ELSE <<[start |-> N(f, block.kids[1]).start,
                length |-> N(f, block.kids[3]).end - N(f, block.kids[1]).start,
                newText |-> "{"
                    \o Lines(Spaces(CharacterOf(f, N(f, sw).start)), branches)
                    \o "\n" \o Spaces(CharacterOf(f, N(f, sw).start)) \o "}"]>>

MissingCases(f, sw) ==
    [i \in 1..Len(UncoveredParts(f, sw)) |-> CaseBranch(UncoveredParts(f, sw)[i])]

\* C13 as stated: the fix of every 'Switch is not exhaustive' diagnostic
\* inserts one `case` branch per uncovered part, and nothing else
C13_Original ==
    \A sw \in NodeIds(file) : IsSwitchStatement(file, sw) =>
        \A i \in NotExhaustiveDiags(file, sw) :
            /\ diags[i].fixState # "threw"
            /\ diags[i].fixState = "ok" =>
                  diags[i].edits = BranchesInserted(file, sw, MissingCases(file, sw))

(***************************************************************************)
(* C13 as amended: the fix of the 'Switch is not exhaustive' diagnostic    *)
(* that lists the missing literal branches is a single edit that inserts   *)
(* exactly one `case <value>: { throw new Error(...) }` branch per missing *)
(* branch, in the order listed, and nothing else; the fix of the one that  *)
(* lists `default` is a single edit that inserts exactly one               *)
(* `default: { throw new Error(...) }` clause and nothing else.  With at   *)
(* least one clause the edit is a zero-length insertion at the start of    *)
(* the last clause; with no clause it replaces the span from the opening   *)
(* brace of the case block to its closing brace by a block whose only      *)
(* content is the new branches.  The fix never throws.                     *)
(***************************************************************************)
C13_FixInsertsBranches ==
    \A sw \in NodeIds(file) : IsSwitchStatement(file, sw) =>
        /\ \A i \in MissingBranchDiags(file, sw) :
            /\ diags[i].fixState # "threw"
            /\ diags[i].fixState = "ok" =>
                  diags[i].edits = BranchesInserted(file, sw, MissingCases(file, sw))
        /\ \A i \in MissingDefaultDiags(file, sw) :
            /\ diags[i].fixState # "threw"
            /\ diags[i].fixState = "ok" =>
                  diags[i].edits = BranchesInserted(file, sw, <<DefaultBranch>>)

\* the fixes of two switches have been evaluated: one over the enum with a
\* clause and both members missing, one without any clause
C13_Witness ==
    /\ status = "done"
    /\ \E sw \in NodeIds(file) :
        /\ IsSwitchStatement(file, sw)
        /\ \E i \in MissingBranchDiags(file, sw) : diags[i].fixState = "ok"
        /\ Clauses(file, sw) # <<>>
        /\ UncoveredParts(file, sw) = <<TEnumA, TEnumQ>>
        /\ CharacterOf(file, N(file, sw).start) > 0

(***************************************************************************)
(* switch-exhaustiveness-check: the default clause of an exhaustive switch *)
(***************************************************************************)
DefaultClauses(f, sw) ==
    {c \in Range(Clauses(f, sw)) : N(f, c).kind = "DefaultClause"}

UnnecessaryDefaultDiags ==
    {i \in 1..Len(diags) : diags[i].message = UnnecessaryDefault}

RECURSIVE Occurrences(_, _)
Occurrences(string, part) ==
    IF Len(string) < Len(part) THEN 0
    ELSE (IF StartsWith(string, part) THEN 1 ELSE 0)
         + Occurrences(SubSeq(string, 2, Len(string)), part)

Loops(f) ==
    {n \in NodeIds(f) :
        N(f, n).kind \in {"WhileStatement", "DoStatement", "ForStatement"}}

\* C16: of a while, do-while or for loop whose test has the literal type
\* `true`, the test gets no diagnostic when allowConstantLoopConditions is
\* set, and is reported as always truthy when it is not; a `for` without
\* condition is never reported
C16_ConstantLoops ==
    \A n \in Loops(file) :
        LET test == TestOf(file, n)
        IN  IF test = 0 THEN diags = <<>>
            ELSE IsTrueLiteralType(GetConstrainedTypeAtLocation(file, test)) =>
                 IF opts.allowConstantLoopConditions
                 THEN DiagsOn(file, test) = {}
                 ELSE /\ Cardinality(DiagsOn(file, test)) =
                            IF n \in Range(visited) THEN 1 ELSE 0
                      /\ \A i \in DiagsOn(file, test) :
                            diags[i].message = AlwaysTruthy

\* a loop whose test has type `true` was visited with the option set
C16_Witness ==
    /\ status = "done"
    /\ opts.allowConstantLoopConditions
    /\ \E n \in Loops(file) \cap Range(visited) :
        /\ TestOf(file, n) # 0
        /\ N(file, TestOf(file, n)).a.type = TTrue
        /\ N(file, n).kind = "DoStatement"

(***************************************************************************)
(* no-unnecessary-condition: negated conditions                            *)
(***************************************************************************)
IfStatements(f) == {n \in NodeIds(f) : N(f, n).kind = "IfStatement"}

\* the number of prefix `!` around the operand of the expression
RECURSIVE Negations(_, _)
Negations(f, e) ==
    IF IsNegation(f, e) THEN 1 + Negations(f, Operand(f, e)) ELSE 0

RECURSIVE NegatedOperand(_, _)
NegatedOperand(f, e) ==
    IF IsNegation(f, e) THEN NegatedOperand(f, Operand(f, e)) ELSE e

Flipped(message) ==
    IF message = AlwaysTruthy THEN AlwaysFalsy ELSE AlwaysTruthy

\* C17: a condition that is n >= 0 prefix `!` applied to an operand that is
\* always truthy is reported 'always truthy' when n is even and 'always
\* falsy' when n is odd; for an operand that is always falsy it is the other
\* way round
C17_Negations ==
    status = "done" =>
        \A n \in IfStatements(file) :
            LET test == N(file, n).kids[3]
                e == NegatedOperand(file, test)
                type == N(file, e).a.type
                plain == IF ~IsPossiblyFalsy(type) THEN AlwaysTruthy
                         ELSE AlwaysFalsy
            IN  ( /\ N(file, e).kind = "Identifier"
                  /\ type \in {TLitFoo, TLitEmpty, TObject, TUndefined, TTrue} )
                => \E i \in DiagsOn(file, e) :
                      diags[i].message =
                          IF Negations(file, test) % 2 = 0 THEN plain
                          ELSE Flipped(plain)

(***************************************************************************)
(* prefer-ts-expect-error                                                  *)
(***************************************************************************)
UseTsExpectError ==
    "Use \"@ts-expect-error\" to ensure an error is actually being suppressed."

CharAt(string, i) ==
    IF i >= 1 /\ i <= Len(string) THEN SubSeq(string, i, i) ELSE ""

StartsAt(string, i, part) ==
    /\ i >= 1
    /\ i + Len(part) - 1 <= Len(string)
    /\ SubSeq(string, i, i + Len(part) - 1) = part

\* the first index from i on whose character is not in the set
RECURSIVE SkipChars(_, _, _)
SkipChars(string, i, chars) ==
    IF CharAt(string, i) \in chars THEN SkipChars(string, i + 1, chars)
    ELSE i

\* String.prototype.indexOf: the offset of the first occurrence, or -1
RECURSIVE IndexOfFrom(_, _, _)
IndexOfFrom(string, part, i) ==
    IF i + Len(part) - 1 > Len(string) THEN -1
    ELSE IF StartsAt(string, i, part) THEN i - 1
    ELSE IndexOfFrom(string, part, i + 1)

IndexOfText(string, part) == IndexOfFrom(string, part, 1)

\* the last element of string.split('\n')
RECURSIVE LastLineOf(_)
LastLineOf(string) ==
    LET i == IndexOfText(string, "\n")
    IN  IF i = -1 THEN string
        ELSE LastLineOf(SubSeq(string, i + 2, Len(string)))

WhiteSpace == {" ", "\t", "\n", "\r"}

\* /^\s*\/?\s*@ts-ignore/.test(line)
TsIgnoreRegExpSingleLine(line) ==
    LET i == SkipChars(line, 1, WhiteSpace)
        j == IF CharAt(line, i) = "/" THEN i + 1 ELSE i
    IN  StartsAt(line, SkipChars(line, j, WhiteSpace), "@ts-ignore")

\* /^\s*(?:\/|\*)*\s*@ts-ignore/.test(line)
TsIgnoreRegExpMultiLine(line) ==
    LET i == SkipChars(line, 1, WhiteSpace)
        j == SkipChars(line, i, {"/", "*"})
    IN  StartsAt(line, SkipChars(line, j, WhiteSpace), "@ts-ignore")

\* the comment that begins at the offset pos of the text: a line comment
\* ends before the line break, a block comment after its `*/`
RECURSIVE LineCommentEnd(_, _)
LineCommentEnd(text, pos) ==
    IF pos >= Len(text) \/ CharAt(text, pos + 1) \in {"\n", "\r"} THEN pos
    ELSE LineCommentEnd(text, pos + 1)

RECURSIVE BlockCommentEnd(_, _)
BlockCommentEnd(text, pos) ==
    IF pos >= Len(text) THEN pos
    ELSE IF StartsAt(text, pos + 1, "*/") THEN pos + 2
    ELSE BlockCommentEnd(text, pos + 1)

CommentAt(text, pos) ==
    IF StartsAt(text, pos + 1, "//")
    THEN [kind |-> "SingleLineCommentTrivia", pos |-> pos,
          end |-> LineCommentEnd(text, pos + 2)]
    ELSE [kind |-> "MultiLineCommentTrivia", pos |-> pos,
          end |-> BlockCommentEnd(text, pos + 2)]

\* ts.getLeadingCommentRanges (without the shebang of a script): the
\* comments from pos up to the next token, those before the first line break
\* left out unless pos is the start of the text
RECURSIVE IterateCommentRanges(_, _, _)
IterateCommentRanges(text, pos, collecting) ==
    LET ch == CharAt(text, pos + 1)
    IN  IF pos >= Len(text) THEN <<>>
        ELSE IF ch = "\r"
        THEN IterateCommentRanges(
                 text, IF CharAt(text, pos + 2) = "\n" THEN pos + 2 ELSE pos + 1,
                 TRUE)
        ELSE IF ch = "\n" THEN IterateCommentRanges(text, pos + 1, TRUE)
        ELSE IF ch \in {" ", "\t"}
        THEN IterateCommentRanges(text, pos + 1, collecting)
        ELSE IF StartsAt(text, pos + 1, "//") \/ StartsAt(text, pos + 1, "/*")
        THEN (IF collecting THEN <<CommentAt(text, pos)>> ELSE <<>>)
             \o IterateCommentRanges(text, CommentAt(text, pos).end, collecting)
        ELSE <<>>

GetLeadingCommentRanges(text, pos) == IterateCommentRanges(text, pos, pos = 0)

IsLineComment(comment) == comment.kind = "SingleLineCommentTrivia"

GetLastCommentLine(f, comment) ==
    IF IsLineComment(comment) THEN Slice(f, comment.pos, comment.end)
    ELSE LastLineOf(Slice(f, comment.pos, comment.end))

IsValidTsIgnorePresent(f, comment) ==
    LET line == GetLastCommentLine(f, comment)
    IN  IF IsLineComment(comment)
        THEN TsIgnoreRegExpSingleLine(SubSeq(line, 3, Len(line)))
        ELSE TsIgnoreRegExpMultiLine(line)

\* the callback of the traversal: the leading comments of the node
ExpectVisit(f, node) ==
    LET comments == GetLeadingCommentRanges(f.text, N(f, node).pos)
    IN  Outcome(
          Concat([i \in 1..Len(comments) |->
                    IF IsValidTsIgnorePresent(f, comments[i])
                    THEN <<WithFix(Report(UseTsExpectError, comments[i].pos,
                                          comments[i].end),
                                   Fix("replaceTsIgnore", node, ""))>>
                    ELSE <<>>]),
          TRUE, FALSE)

\* the fix of the diagnostic reported on the comment
ExpectFix(f, comment) ==
    LET replacePos == comment.pos
            + IndexOfText(Slice(f, comment.pos, comment.end), "@ts-ignore")
    IN  Edits(<<TextChange(replacePos, Len("@ts-ignore"), "@ts-expect-error")>>)

\* the source file of the text with the edit applied; the edits of this rule
\* lie within a comment, so the tree is the same and the nodes after the
\* comment move by the difference in length
Reparse(f, e) ==
    LET moved(p) == IF p >= e.start + e.length
                    THEN p + Len(e.newText) - e.length ELSE p
    IN  [text |-> ApplyEdit(f.text, e),
         nodes |-> [i \in NodeIds(f) |->
                      [N(f, i) EXCEPT !.pos = moved(@), !.start = moved(@),
                                      !.end = moved(@)]]]

\* the comments of the input files
ExpectComments ==
    {"// @ts-ignore", "//@ts-ignore: x", "/// @ts-ignore", "//// @ts-ignore",
     "// @ts-expect-error", "// see @ts-ignore",
     "/* @ts-ignore */", "/** @ts-ignore */", "/*\n * @ts-ignore */",
     "/* @ts-ignore\n * @ts-ignore */", "/* see @ts-ignore\n @ts-ignore */",
     "/* @ts-ignore\n */", "/* @ts-expect-error */"}

ExpectShapes == {"first", "own line", "same line", "end of file"}

ExpectFile(comment, shape) ==
    LET a(trivia) == ExprStatement(Ident(trivia, "a", A0))
        b == ExprStatement(Ident("", "b", A0))
    IN  Parse(CASE shape = "first" -> SourceFile(<<a(comment \o "\n")>>)
                [] shape = "own line" ->
                     SourceFile(<<b, a("\n" \o comment \o "\n")>>)
                [] shape = "same line" ->
                     SourceFile(<<b, a(" " \o comment \o "\n")>>)
                [] shape = "end of file" ->
                     Node("SourceFile",
                          <<List(<<b>>),
                            Leaf("EndOfFileToken", "\n" \o comment \o "\n", "",
                                 A0)>>, A0))

NoOptions == [none |-> TRUE]

ExpectInit ==
    \E comment \in ExpectComments, shape \in ExpectShapes :
        Start("prefer-ts-expect-error", NoOptions, ExpectFile(comment, shape))

ExpectCallback ==
    /\ rule = "prefer-ts-expect-error"
    /\ status = "running"
    /\ todo # <<>>
    /\ Step(ExpectVisit(file, Head(todo)))

\* the host evaluates the fix of a diagnostic once the rule has returned
ExpectEvalFix ==
    /\ rule = "prefer-ts-expect-error"
    /\ status = "done"
    /\ \E i \in 1..Len(diags) :
        /\ diags[i].fixState = "pending"
        /\ LET result == ExpectFix(file, [pos |-> diags[i].start,
                                          end |-> diags[i].end])
           IN  diags' = [diags EXCEPT
                           ![i].fixState = IF result.throws THEN "threw"
                                           ELSE "ok",
                           ![i].edits = result.edits]
    /\ UNCHANGED <<rule, opts, file, todo, visited, status>>

\* the host applies the fix of one diagnostic and runs the rule again on the
\* result; the diagnostic whose fix was applied is kept, marked, at the head
\* of the diagnostics of the second run
ExpectApplyFix ==
    /\ rule = "prefer-ts-expect-error"
    /\ status = "done"
    /\ \A j \in 1..Len(diags) : diags[j].fixState # "applied"
    /\ \E i \in 1..Len(diags) :
        /\ diags[i].fixState = "ok"
        /\ file' = Reparse(file, diags[i].edits[1])
        /\ diags' = <<[diags[i] EXCEPT !.fixState = "applied"]>>
    /\ todo' = ForEachChild(file', 1)
    /\ visited' = <<>>
    /\ status' = "running"
    /\ UNCHANGED <<rule, opts>>

ExpectNext == ExpectCallback \/ Return \/ ExpectEvalFix \/ ExpectApplyFix

SpecExpect == ExpectInit /\ [][ExpectNext]_vars

\* every comment of the text, in order (the statements of the input files
\* hold no `/`)
RECURSIVE CommentsIn(_, _)
CommentsIn(text, pos) ==
    IF pos >= Len(text) THEN <<>>
    ELSE IF StartsAt(text, pos + 1, "//") \/ StartsAt(text, pos + 1, "/*")
    THEN <<CommentAt(text, pos)>> \o CommentsIn(text, CommentAt(text, pos).end)
    ELSE CommentsIn(text, pos + 1)

\* the offset in the text of the `@ts-ignore` marker that the line of the
\* comment starts with (after white space, slashes and asterisks), or -1
MarkerOf(f, comment) ==
    LET whole == Slice(f, comment.pos, comment.end)
        line == IF IsLineComment(comment) THEN SubSeq(whole, 3, Len(whole))
                ELSE LastLineOf(whole)
        i == SkipChars(line, 1, WhiteSpace)
        j == IF IsLineComment(comment)
             THEN (IF CharAt(line, i) = "/" THEN i + 1 ELSE i)
             ELSE SkipChars(line, i, {"/", "*"})
        k == SkipChars(line, j, WhiteSpace)
    IN  IF StartsAt(line, k, "@ts-ignore")
        THEN comment.end - Len(line) + k - 1 ELSE -1

FirstRun == \A j \in 1..Len(diags) : diags[j].fixState # "applied"

\* C18: a comment whose line (the text after `//`, the last line of a block
\* comment) starts with the `@ts-ignore` marker is reported, the diagnostic
\* spans the whole comment, and its fix is the single edit that replaces the
\* 10 characters of that marker by `@ts-expect-error`
C18_MarkerReplaced ==
    (status = "done" /\ FirstRun) =>
        /\ \A c \in Range(CommentsIn(file.text, 0)) :
              MarkerOf(file, c) # -1 =>
                  \E i \in 1..Len(diags) :
                      /\ diags[i].message = UseTsExpectError
                      /\ diags[i].start = c.pos
                      /\ diags[i].end = c.end
        /\ \A i \in 1..Len(diags) :
              \E c \in Range(CommentsIn(file.text, 0)) :
                  /\ diags[i].start = c.pos
                  /\ diags[i].end = c.end
                  /\ diags[i].fixState = "ok" =>
                        diags[i].edits =
                            <<[start |-> MarkerOf(file, c), length |-> 10,
                               newText |-> "@ts-expect-error"]>>

\* C19: after the fix of a reported comment has been applied and the rule
\* has run again on the result, that comment is not reported again
C19_NotReportedAgain ==
    (status = "done" /\ ~FirstRun) =>
        \A j \in 2..Len(diags) : diags[j].start # diags[1].start

\* C30: in one pass every comment that matches is reported exactly once,
\* also when several nodes (a statement and its first descendant) have the
\* same full start and so the same leading comments
C30_ReportedOnce ==
    (status = "done" /\ FirstRun) =>
        \A c \in Range(CommentsIn(file.text, 0)) :
            IsValidTsIgnorePresent(file, c) =>
                Cardinality({i \in 1..Len(diags) :
                                /\ diags[i].start = c.pos
                                /\ diags[i].end = c.end}) = 1

(***************************************************************************)
(* The rules that require strictNullChecks                                 *)
(***************************************************************************)
StrictInit == NullishInit \/ ConditionInit

StrictNext == NullishNext \/ ConditionNext

SpecStrict == StrictInit /\ [][StrictNext]_vars

\* what the callback of the rule reports on the nodes visited so far
Findings ==
    Concat([i \in 1..Len(visited) |->
              (IF rule = "prefer-nullish-coalescing"
               THEN NullishVisit(file, opts, visited[i])
               ELSE ConditionVisit(file, opts, visited[i])).reports])

StrictNullChecksDiags ==
    {i \in 1..Len(diags) : diags[i].message = RequiresStrictNullChecks}

\* C20: once a rule that requires strictNullChecks has started, with the
\* compiler option off and allowRuleToRunWithoutStrictNullChecksIKnowWhatIAmDoing
\* not true its first diagnostic, and only that one, is the zero-span
\* diagnostic at offset 0; the rule then traverses the file without throwing,
\* visits every top-level node and reports after the first diagnostic what its
\* callback finds; with the compiler option on or the rule option true there
\* is no such diagnostic
C20_StrictNullChecks ==
    status # "created" =>
        IF /\ ~opts.strictNullChecks
           /\ ~opts.allowRuleToRunWithoutStrictNullChecksIKnowWhatIAmDoing
        THEN /\ StrictNullChecksDiags = {1}
             /\ diags[1].start = 0 /\ diags[1].end = 0
             /\ \A i \in 2..Len(diags) : diags[i].end > 0
             /\ status # "thrown"
             /\ status = "done" =>
                   /\ Range(ForEachChild(file, 1)) \subseteq Range(visited)
                   /\ Len(diags) = 1 + Len(Findings)
                   /\ \A i \in 1..Len(Findings) :
                         /\ diags[i + 1].message = Findings[i].message
                         /\ diags[i + 1].start = Findings[i].start
        ELSE /\ StrictNullChecksDiags = {}
             /\ \A i \in 1..Len(diags) : diags[i].end > 0

(***************************************************************************)
(* All the rules                                                           *)
(***************************************************************************)
RulesInit ==
    \/ DupCaseInit
    \/ SwitchFixInit
    \/ AssertionInit
    \/ NullishInit
    \/ ConditionInit
    \/ ExpectInit

RulesNext ==
    \/ DupCaseNext
    \/ SwitchFixNext
    \/ AssertionNext
    \/ NullishNext
    \/ ConditionNext
    \/ ExpectNext

SpecRules == RulesInit /\ [][RulesNext]_vars

\* C21: every diagnostic that a rule has reported lies within the text of the
\* source file: 0 <= start <= end <= length of the text
C21_SpansWithinFile ==
    \A i \in 1..Len(diags) :
        /\ 0 <= diags[i].start
        /\ diags[i].start <= diags[i].end
        /\ diags[i].end <= Len(file.text)

\* the diagnostic on a switch whose discriminant is a zero-width node
C21_Witness ==
    /\ rule = "switch-exhaustiveness-check"
    /\ status = "done"
    /\ \E sw \in NodeIds(file) :
        /\ IsSwitchStatement(file, sw)
        /\ N(file, SwitchExpression(file, sw)).start
              = N(file, SwitchExpression(file, sw)).end
        /\ MissingDefaultDiags(file, sw) # {}

\* C22: an exception thrown while a node is handled does not leave the rule
\* invocation: no invocation ends by a throw with nodes of the traversal left
\* unvisited
C22_NoEscape ==
    status # "thrown"

\* the nodes of the subtrees of the given nodes, in depth-first pre-order
RECURSIVE PreOrder(_, _)
PreOrder(f, ids) ==
    IF ids = <<>> THEN <<>>
    ELSE <<Head(ids)>> \o PreOrder(f, ForEachChild(f, Head(ids)) \o Tail(ids))

\* C23: when a rule returns, its callback has been called on every node of
\* the file exactly once, in depth-first pre-order
C23_CompleteTraversal ==
    status = "done" => visited = PreOrder(file, ForEachChild(file, 1))

\* C24: the diagnostics of one invocation are reported in document order:
\* the start offsets of successive diagnostics never decrease
C24_DocumentOrder ==
    \A i \in 1..(Len(diags) - 1) : diags[i].start <= diags[i + 1].start

(***************************************************************************)
(* no-unnecessary-condition: the operands of a test                        *)
(***************************************************************************)
TruthinessMessages == {AlwaysTruthy, AlwaysFalsy}

TruthinessDiags(f, node) ==
    {i \in DiagsOn(f, node) : diags[i].message \in TruthinessMessages}

\* the operands of the chain of `&&` or `||` that the expression is; an
\* operand in parentheses is one operand
RECURSIVE LogicalOperands(_, _)
LogicalOperands(f, e) ==
    IF /\ IsBinaryExpression(f, e)
       /\ OperatorOf(f, e) \in {"BarBarToken", "AmpersandAmpersandToken"}
    THEN LogicalOperands(f, Left(f, e)) \cup LogicalOperands(f, Right(f, e))
    ELSE {e}

Tests(f) ==
    {TestOf(f, n) : n \in {m \in NodeIds(f) :
        /\ N(f, m).kind \in {"IfStatement", "WhileStatement", "DoStatement",
                             "ForStatement", "ConditionalExpression"}
        /\ TestOf(f, m) # 0}}

C28_OnlyLogicalOperands ==
    \A t \in Tests(file) :
        ( /\ IsBinaryExpression(file, t)
          /\ OperatorOf(file, t) \notin
                {"BarBarToken", "AmpersandAmpersandToken",
                 "QuestionQuestionToken", "BarBarEqualsToken",
                 "AmpersandAmpersandEqualsToken",
                 "QuestionQuestionEqualsToken"} )
        => TruthinessDiags(file, Right(file, t)) = {}

(***************************************************************************)
(* getTokenBefore and getTokenAfter                                        *)
(***************************************************************************)
\* the kinds that the rules look for with these functions
SoughtKinds ==
    {"LessThanToken", "GreaterThanToken", "AsKeyword", "ExclamationToken",
     "BarBarToken", "Identifier"}

Siblings(f, node) == N(f, N(f, node).parent).kids

\* the nearest sibling of the kind before (after) the node, or 0
NearestBefore(f, node, kind) ==
    LET children == Siblings(f, node)
        found == {i \in 1..(IndexOf(children, node) - 1) :
                    N(f, children[i]).kind = kind}
    IN  IF found = {} THEN 0
        ELSE children[CHOOSE i \in found : \A j \in found : j <= i]

NearestAfter(f, node, kind) ==
    LET children == Siblings(f, node)
        found == {i \in (IndexOf(children, node) + 1)..Len(children) :
                    N(f, children[i]).kind = kind}
    IN  IF found = {} THEN 0
        ELSE children[CHOOSE i \in found : \A j \in found : i <= j]

\* C25: getTokenBefore and getTokenAfter return the nearest sibling before
\* (after) the node that satisfies the condition, nothing when there is none,
\* and never the node itself
C25_NearestSibling ==
    \A node \in NodeIds(file) \ {1} : \A kind \in SoughtKinds :
        /\ GetTokenBefore(file, node, kind) = NearestBefore(file, node, kind)
        /\ GetTokenAfter(file, node, kind) = NearestAfter(file, node, kind)
        /\ GetTokenBefore(file, node, kind) # node
        /\ GetTokenAfter(file, node, kind) # node

(***************************************************************************)
(* getTokenAtPosition                                                      *)
(***************************************************************************)
\* the for loop over the children of current: the function returns current,
\* or a child is pushed on the queue, or the loop ends without either
RECURSIVE ScanChildrenNoEndOfFile(_, _, _, _)
ScanChildrenNoEndOfFile(f, children, i, position) ==
    IF i > Len(children) THEN [step |-> "none", child |-> 0]
    ELSE IF N(f, children[i]).pos > position
    THEN [step |-> "return", child |-> 0]
    ELSE IF position < N(f, children[i]).end
    THEN [step |-> "push", child |-> children[i]]
    ELSE ScanChildrenNoEndOfFile(f, children, i + 1, position)

RECURSIVE ScanChildren(_, _, _, _)
ScanChildren(f, children, i, position) ==
    IF i > Len(children) THEN [step |-> "none", child |-> 0]
    ELSE IF N(f, children[i]).pos > position
    THEN [step |-> "return", child |-> 0]
    ELSE IF \/ position < N(f, children[i]).end
            \/ /\ position = N(f, children[i]).end
               /\ N(f, children[i]).kind = "EndOfFileToken"
    THEN [step |-> "push", child |-> children[i]]
    ELSE ScanChildren(f, children, i + 1, position)

\* the files the function is called on
PositionFiles ==
    {Parse(SourceFile(<<>>)),
     SwitchFile(TString, <<>>, FALSE, <<>>),
     SwitchFile(TString, <<"'a'", "default">>, TRUE, <<"'a'">>),
     SwitchFileMissing(<<>>),
     ComparisonFile("s", "===", "1", TRUE),
     LogicalFile("!!", TString),
     TestFile("ternary", "&&", "a.(b.c)", TString, TLitFoo),
     LoopFile("forever", TString),
     LoopFile("do", TTrue)}
    \cup {ExpectFile("/* @ts-ignore */", shape) : shape \in ExpectShapes}

\* the call getTokenAtPosition(sourceFile, position): the queue is todo, the
\* values that current has taken are visited
PositionInit ==
    \E f \in PositionFiles : \E position \in 0..Len(f.text) :
        /\ rule = "getTokenAtPosition"
        /\ opts = [position |-> position]
        /\ file = f
        /\ todo = <<1>>
        /\ visited = <<>>
        /\ diags = <<>>
        /\ status = "running"

\* one iteration of the while loop
PositionStep ==
    /\ rule = "getTokenAtPosition"
    /\ status = "running"
    /\ todo # <<>>
    /\ LET current == Head(todo)
           scan == ScanChildren(file, N(file, current).kids, 1, opts.position)
       IN  /\ visited' = Append(visited, current)
           /\ todo' = IF scan.step = "push" THEN Tail(todo) \o <<scan.child>>
                      ELSE IF scan.step = "return" THEN <<>>
                      ELSE Tail(todo)
           /\ status' = IF scan.step = "return" THEN "done" ELSE "running"
    /\ UNCHANGED <<rule, opts, file, diags>>

PositionNext == PositionStep \/ Return

SpecPosition == PositionInit /\ [][PositionNext]_vars

\* the number of levels of the tree below and including the node
RECURSIVE Depth(_, _)
Depth(f, n) ==
    LET below == {Depth(f, N(f, n).kids[i]) : i \in 1..Len(N(f, n).kids)}
    IN  1 + (IF below = {} THEN 0
             ELSE CHOOSE d \in below : \A e \in below : e <= d)

Contains(f, n, position) ==
    N(f, n).pos <= position /\ position < N(f, n).end

\* C26: the queue never holds more than one node, the loop makes at most as
\* many iterations as the tree has levels, and the function returns the
\* deepest node whose range [full start, end) contains the position, or the
\* end-of-file token for the position at the end of the text
C26_DeepestNode ==
    /\ Len(todo) <= 1
    /\ Len(visited) <= Depth(file, 1)
    /\ status = "done" =>
        LET result == visited[Len(visited)]
        IN  IF opts.position = Len(file.text)
            THEN N(file, result).kind = "EndOfFileToken"
            ELSE /\ Contains(file, result, opts.position)
                 /\ \A n \in NodeIds(file) :
                       Contains(file, n, opts.position) =>
                           N(file, n).pos <= N(file, result).pos
                           /\ N(file, result).end <= N(file, n).end
                 /\ \A i \in 1..Len(N(file, result).kids) :
                       ~Contains(file, N(file, result).kids[i], opts.position)

\* the function has returned a token three levels or more below the root
C26_Witness ==
    /\ status = "done"
    /\ Len(visited) >= 4
    /\ N(file, visited[Len(visited)]).kids = <<>>
    /\ opts.position < Len(file.text)

(***************************************************************************)
(* convertTSLintRule (src/tsslint.config.ts): the adapter that turns the   *)
(* failures of a TSLint rule into diagnostics.  The failures are what the  *)
(* TSLint rule returns (opts.failures); todo holds the indices of the      *)
(* failures the outer loop has still to handle.                            *)
(***************************************************************************)
MaxFailures == 2

Replacement(start, length, text) ==
    [defined |-> TRUE, start |-> start, length |-> length, text |-> text]

\* a hole in the array of replacements
NoReplacement == [defined |-> FALSE, start |-> 0, length |-> 0, text |-> ""]

\* the fix of a failure: none, one replacement, or an array of them
FailureFixes ==
    {[defined |-> FALSE, array |-> FALSE, replaces |-> <<>>],
     [defined |-> TRUE, array |-> FALSE,
      replaces |-> <<Replacement(0, 1, "x")>>],
     [defined |-> TRUE, array |-> TRUE,
      replaces |-> <<Replacement(1, 0, "y"), NoReplacement,
                     Replacement(2, 1, "")>>],
     [defined |-> TRUE, array |-> TRUE, replaces |-> <<>>]}

Failures ==
    {[failure |-> "failure", start |-> s, end |-> s + 1, fix |-> fix] :
        s \in 0..1, fix \in FailureFixes}

FailureSeqs ==
    UNION {[1..n -> Failures] : n \in 0..MaxFailures}

RuleSeverities == {"off", "warning", "error"}

\* reportError or reportWarning, called with the failure's text and span
ConvertReport(severity, message, start, end) ==
    [message |-> message, start |-> start, end |-> end,
     severity |-> severity, fixes |-> <<>>]

\* reporter.withFix(title, getEdits)
ConvertWithFix(reporter, title, edits) ==
    [reporter EXCEPT !.fixes = Append(@, [title |-> title, edits |-> edits])]

\* the innermost loop: one withFix for every replacement that is there
RECURSIVE WithReplaces(_, _, _)
WithReplaces(reporter, replaces, k) ==
    IF k > Len(replaces) THEN reporter
    ELSE IF replaces[k].defined
    THEN WithReplaces(
             ConvertWithFix(reporter, "Replace with " \o replaces[k].text,
                 <<TextChange(replaces[k].start, replaces[k].length,
                              replaces[k].text)>>),
             replaces, k + 1)
    ELSE WithReplaces(reporter, replaces, k + 1)

\* the loop `for (let i = 0; i < failures.length; i++)` inside the handling
\* of one failure: its own `failure` is failures[i]
RECURSIVE WithFailureFixes(_, _, _)
WithFailureFixes(reporter, failures, i) ==
    IF i > Len(failures) THEN reporter
    ELSE IF failures[i].fix.defined
    THEN WithFailureFixes(
             WithReplaces(reporter, failures[i].fix.replaces, 1),
             failures, i + 1)
    ELSE WithFailureFixes(reporter, failures, i + 1)

\* the body of `for (const failure of failures)`
ConvertFailure(failures, failure, ruleSeverity) ==
    WithFailureFixes(
        ConvertReport(IF ruleSeverity = "error" THEN "error" ELSE "warning",
                      failure.failure, failure.start, failure.end),
        failures, 1)

ConvertInit ==
    \E failures \in FailureSeqs, ruleSeverity \in RuleSeverities :
        /\ rule = "convertTSLintRule"
        /\ opts = [ruleSeverity |-> ruleSeverity, failures |-> failures]
        /\ file = Parse(SourceFile(<<>>))
        /\ todo = [i \in 1..Len(failures) |-> i]
        /\ visited = <<>>
        /\ diags = <<>>
        /\ status = "running"

\* the severity is 'off': the rule returns before it asks for the failures
ConvertOff ==
    /\ rule = "convertTSLintRule"
    /\ status = "running"
    /\ opts.ruleSeverity = "off"
    /\ status' = "done"
    /\ todo' = <<>>
    /\ UNCHANGED <<rule, opts, file, visited, diags>>

\* one iteration of the loop over the failures
ConvertStep ==
    /\ rule = "convertTSLintRule"
    /\ status = "running"
    /\ opts.ruleSeverity # "off"
    /\ todo # <<>>
    /\ visited' = Append(visited, Head(todo))
    /\ diags' = Append(diags,
           ConvertFailure(opts.failures, opts.failures[Head(todo)],
                          opts.ruleSeverity))
    /\ todo' = Tail(todo)
    /\ UNCHANGED <<rule, opts, file, status>>

ConvertReturn ==
    /\ opts.ruleSeverity # "off"
    /\ Return

ConvertNext == ConvertOff \/ ConvertStep \/ ConvertReturn

SpecConvert == ConvertInit /\ [][ConvertNext]_vars

\* the fixes that belong to one failure: one per replacement of its own fix
OwnFixes(failure) ==
    LET there == SelectSeq(failure.fix.replaces, LAMBDA r : r.defined)
    IN  IF failure.fix.defined
        THEN [k \in 1..Len(there) |->
                 [title |-> "Replace with " \o there[k].text,
                  edits |-> <<TextChange(there[k].start, there[k].length,
                                         there[k].text)>>]]
        ELSE <<>>

\* C29: when the adapter has returned there is one diagnostic per failure,
\* each with exactly the replacements of its own failure's fix, each once and
\* none of another failure (so none for a failure without a fix); with the
\* severity 'off' there is no diagnostic
C29_OwnReplacements ==
    status = "done" =>
        IF opts.ruleSeverity = "off" THEN diags = <<>>
        ELSE /\ Len(diags) = Len(opts.failures)
             /\ \A i \in 1..Len(diags) :
                   /\ diags[i].message = opts.failures[i].failure
                   /\ diags[i].start = opts.failures[i].start
                   /\ diags[i].fixes = OwnFixes(opts.failures[i])

====
